---- MODULE Spec2Model ----
(***************************************************************************)
(* The quiz session of src/pages/QuizPage.tsx (component QuizPage) as a    *)
(* state machine.                                                          *)
(*                                                                         *)
(* React's execution model, as far as the component depends on it:         *)
(*  - every useState cell is a variable; a setter changes the cell at      *)
(*    once, but the functions of the component (handleSubmitQuiz, the      *)
(*    effects, the buttons on screen) read the values captured by the last *)
(*    render, kept in "view";                                              *)
(*  - Render commits the cells to "view" and runs the effects whose        *)
(*    dependencies changed (all clean-ups first, then the bodies in source *)
(*    order);                                                              *)
(*  - a user event (click, input, route change) runs its handler and is    *)
(*    rendered synchronously, so the action of a user event ends with      *)
(*    Render; updates made by timers, promise continuations and effects    *)
(*    are rendered by a later task, the action Rerender;                   *)
(*  - the continuation of an await is one step (automatic batching).       *)
(***************************************************************************)
EXTENDS Integers, Sequences, FiniteSets, TLC

\* ------------------------------------------------------------- bounds
\* DEFAULT_QUIZ_DURATION_SECONDS of ../constants, scaled down
DEFAULT_QUIZ_DURATION_SECONDS == 2
\* how often the route's contentId changes while the page stays mounted
MaxRouteChanges == 1

\* ------------------------------------------------------------- values
\* an optional value (undefined / null in the source) is the empty set
None == {}
Some(x) == {x}

\* the content ids of the routes /quiz/:contentId that are visited: a and b
\* are materials with text, c has none; a run enters the page at a or at c
\* (b is like a) and reaches the others by route changes
ContentIds == {"a", "b", "c"}
FirstRoutes == {"a", "c"}

\* getStudyMaterialById(contentId)?.extractedText ("" : absent or empty)
ExtractedText(cid) ==
    CASE cid = "a" -> "text-a"
      [] cid = "b" -> "text-b"
      [] OTHER -> ""

\* ------------------------------------------------------------ strings
\* a string is a sequence of characters
Whitespace == {" "}
LowerOf(c) == IF c = "P" THEN "p" ELSE IF c = "A" THEN "a" ELSE c

RECURSIVE TrimStart(_)
TrimStart(s) ==
    IF s = <<>> THEN s
    ELSE IF Head(s) \in Whitespace THEN TrimStart(Tail(s)) ELSE s

RECURSIVE TrimEnd(_)
TrimEnd(s) ==
    IF s = <<>> THEN s
    ELSE IF s[Len(s)] \in Whitespace THEN TrimEnd(SubSeq(s, 1, Len(s) - 1)) ELSE s

\* String.prototype.trim
Trim(s) == TrimEnd(TrimStart(s))

\* String.prototype.toLowerCase
ToLowerCase(s) == [i \in 1..Len(s) |-> LowerOf(s[i])]

\* the answers a user types or selects
Answers == { <<" ", "p", " ">> }

\* ---------------------------------------------------------- questions
\* ids supplied by the gateway ("" : none supplied) and ids generated by
\* `q-${Math.random().toString(36).substr(2, 9)}`
GatewayIds == {"g1"}
GeneratedIds == {"q-r1", "q-r2"}
QuestionIds == GatewayIds \cup GeneratedIds

Question(id) ==
    [id |-> id, correctAnswer |-> <<"P">>, userAnswer |-> None, isCorrect |-> None]

\* what generateQuizQuestions may resolve to
GatewayQuestionSets ==
    { <<>>, <<Question("g1"), Question("")>> }

NoAnswers == [id \in QuestionIds |-> None]

\* the random draws of a load in Spec (LoadSpec takes every draw)
Draws == { [k \in 1..2 |-> "q-r1"] }

\* -------------------------------------------------------------- state
VARIABLES
    apiKey,               \* process.env.API_KEY is set (fixed by the build)
    mounted,              \* a QuizPage instance is on screen
    mounts,               \* instances of the page so far (a run follows one instance)
    routeChanges,         \* route changes of the current run (bounded)
    session,              \* number of the current attempt: a mount or a route change starts one
    contentId,            \* useParams().contentId
    questions,            \* useState cells, QuizPage.tsx:58-65
    currentQuestionIndex,
    userAnswers,
    timeLeft,
    quizState,
    score,
    feedback,
    error,
    view,                 \* the cells as captured by the last render
    timerRef,             \* timerRef.current: "null", or the timeout it names:
                          \*   "fresh" (set while a render is queued: cannot fire before it),
                          \*   "live" (pending), "stale" (fired or cleared)
    orphanTimers,         \* pending timeouts timerRef.current no longer names
    pendingLoads,         \* generateQuizQuestions calls in flight
    pendingFeedback,      \* generateFeedbackOnQuiz calls in flight
    quizResults,          \* the Quiz records the current attempt handed to addQuizResult
    returned,             \* history: the last non-empty list the gateway resolved to
    lastAnswer,           \* history: per question id, the last answer the user gave
    wasTaking,            \* history: the current attempt has been in `taking`
    interacted            \* history: the user has acted on the current instance

\* the rest of the application: the content store of
\* contexts/UploadedContentContext, the dashboard page and the study page
VARIABLES
    studyMaterials,       \* the store's materials, in insertion order
    quizzes,              \* the store's Quiz records, in insertion order
    dashboard,            \* DashboardPage: on screen or not, and the average it shows
    study,                \* StudyPage: its useState cells, QuizPage.tsx:479-507
    studyView,            \* the cells and the store as the last render of StudyPage saw them
    pendingChats,         \* sendMessageToChat calls in flight
    pendingGenerates,     \* generation calls in flight (explanation, notes, diagram)
    sent,                 \* history: the number of chat messages sent so far
    started,              \* history: the number of generations started so far
    lastUpdate,           \* history: the last updateStudyMaterial call
    home,                 \* HomePage: its useState cells, DashboardPage.tsx:190-201
    pendingUploads,       \* handleSubmit calls waiting at one of their awaits
    now,                  \* the last value Date.now() returned
    player                \* VideoPlayer: its cells, its last render and the speech queue

appVars == << studyMaterials, quizzes, dashboard, study, studyView, pendingChats,
              pendingGenerates, sent, started, lastUpdate, home, pendingUploads, now,
              player >>

\* the state of the rest of the application as one record
App ==
    [ studyMaterials |-> studyMaterials, quizzes |-> quizzes, dashboard |-> dashboard,
      study |-> study, studyView |-> studyView, pendingChats |-> pendingChats,
      pendingGenerates |-> pendingGenerates, sent |-> sent, started |-> started,
      lastUpdate |-> lastUpdate, home |-> home, pendingUploads |-> pendingUploads,
      now |-> now, player |-> player ]

quizVars == << apiKey, mounted, mounts, routeChanges, session, contentId, questions,
           currentQuestionIndex, userAnswers, timeLeft, quizState, score, feedback,
           error, view, timerRef, orphanTimers, pendingLoads, pendingFeedback,
           quizResults, returned, lastAnswer, wasTaking, interacted >>

vars == << quizVars, appVars >>

\* the whole state as one record, so that a handler is a function of it
World ==
    [ apiKey |-> apiKey, mounted |-> mounted, mounts |-> mounts,
      routeChanges |-> routeChanges, session |-> session, contentId |-> contentId,
      questions |-> questions, currentQuestionIndex |-> currentQuestionIndex,
      userAnswers |-> userAnswers, timeLeft |-> timeLeft, quizState |-> quizState,
      score |-> score, feedback |-> feedback, error |-> error, view |-> view,
      timerRef |-> timerRef, orphanTimers |-> orphanTimers,
      pendingLoads |-> pendingLoads, pendingFeedback |-> pendingFeedback,
      quizResults |-> quizResults, returned |-> returned,
      lastAnswer |-> lastAnswer, wasTaking |-> wasTaking,
      interacted |-> interacted ]

Becomes(w) ==
    /\ apiKey' = w.apiKey
    /\ mounted' = w.mounted
    /\ mounts' = w.mounts
    /\ routeChanges' = w.routeChanges
    /\ session' = w.session
    /\ contentId' = w.contentId
    /\ questions' = w.questions
    /\ currentQuestionIndex' = w.currentQuestionIndex
    /\ userAnswers' = w.userAnswers
    /\ timeLeft' = w.timeLeft
    /\ quizState' = w.quizState
    /\ score' = w.score
    /\ feedback' = w.feedback
    /\ error' = w.error
    /\ view' = w.view
    /\ timerRef' = w.timerRef
    /\ orphanTimers' = w.orphanTimers
    /\ pendingLoads' = w.pendingLoads
    /\ pendingFeedback' = w.pendingFeedback
    /\ quizResults' = w.quizResults
    /\ returned' = w.returned
    /\ lastAnswer' = w.lastAnswer
    /\ wasTaking' = (w.wasTaking \/ w.quizState = "taking")
    /\ interacted' = w.interacted
    /\ UNCHANGED appVars

\* what a render captures
StateView(w) ==
    [ quizState |-> w.quizState, timeLeft |-> w.timeLeft, questions |-> w.questions,
      userAnswers |-> w.userAnswers, currentQuestionIndex |-> w.currentQuestionIndex,
      contentId |-> w.contentId ]

\* a cell changed since the last render
Dirty(w) == w.mounted /\ w.view # StateView(w)

\* the useState initial values, QuizPage.tsx:58-65
InitialCells(w) ==
    [w EXCEPT !.questions = <<>>, !.currentQuestionIndex = 0, !.userAnswers = NoAnswers,
              !.timeLeft = DEFAULT_QUIZ_DURATION_SECONDS, !.quizState = "loading",
              !.score = 0, !.feedback = None, !.error = None, !.timerRef = "null",
              !.lastAnswer = NoAnswers]

\* NoteLength of ../types (the initial selection is MEDIUM)
NoteLevels == {"Short", "Medium", "Detailed"}

\* the useState initial values of StudyPage, QuizPage.tsx:479-507, for the
\* instance number n on the route /study/:contentId
StudyCells(n, cid) ==
    [ mounted |-> TRUE, instance |-> n, contentId |-> cid, material |-> None,
      chatInput |-> <<>>, isAwaitingChatResponse |-> FALSE,
      selectedNoteLength |-> "Medium",
      isLoading |-> [explanation |-> FALSE, notes |-> FALSE, video |-> FALSE],
      error |-> [explanation |-> None, notes |-> None, chat |-> None, video |-> None],
      isGeneratingDiagram |-> FALSE, diagramError |-> None,
      isGeneratingPresentation |-> FALSE, presentationError |-> None,
      hasError |-> FALSE ]

\* no StudyPage on screen
NoStudy(n) == [StudyCells(n, None) EXCEPT !.mounted = FALSE]

\* the useState initial values of HomePage, DashboardPage.tsx:190-201, for the
\* instance number n
HomeCells(n) ==
    [ mounted |-> TRUE, instance |-> n, contentType |-> "text", textContent |-> <<>>,
      youtubeUrl |-> <<>>, selectedFile |-> FALSE, title |-> "", isLoading |-> FALSE,
      error |-> None, isSuggestingMeta |-> FALSE ]

\* no HomePage on screen
NoHome(n) == [HomeCells(n) EXCEPT !.mounted = FALSE]

\* the useState and useRef initial values of VideoPlayer, QuizPage.tsx:316-324,
\* for a list of scenes (TRUE: the scene has a script), and the speech queue
\* of the browser
PlayerCells(scenes) ==
    [ mounted |-> TRUE, scenes |-> scenes, currentSceneIndex |-> 0, isPlaying |-> FALSE,
      isPlayingRef |-> FALSE, cleanup |-> None,
      view |-> [currentSceneIndex |-> 0, isPlaying |-> FALSE],
      queue |-> <<>> ]

\* no VideoPlayer on screen
NoPlayer == [PlayerCells(<<>>) EXCEPT !.mounted = FALSE]

\* no page of the rest on screen, nothing in flight
PagesIdle ==
    /\ player = NoPlayer
    /\ home = NoHome(0)
    /\ pendingUploads = <<>>
    /\ now = 0
    /\ dashboard = [mounted |-> FALSE, averageScore |-> None]
    /\ study = NoStudy(0)
    /\ studyView = [cells |-> NoStudy(0), store |-> <<>>]
    /\ pendingChats = <<>>
    /\ pendingGenerates = <<>>
    /\ sent = 0
    /\ started = 0
    /\ lastUpdate = [flip |-> FALSE, id |-> None, partial |-> [chatHistory |-> <<>>]]

\* the application before anything is uploaded, no page of the rest on screen
AppIdle ==
    /\ studyMaterials = <<>>
    /\ quizzes = <<>>
    /\ PagesIdle

AppBecomes(a) ==
    /\ studyMaterials' = a.studyMaterials
    /\ quizzes' = a.quizzes
    /\ dashboard' = a.dashboard
    /\ study' = a.study
    /\ studyView' = a.studyView
    /\ pendingChats' = a.pendingChats
    /\ pendingGenerates' = a.pendingGenerates
    /\ sent' = a.sent
    /\ started' = a.started
    /\ lastUpdate' = a.lastUpdate
    /\ home' = a.home
    /\ pendingUploads' = a.pendingUploads
    /\ now' = a.now
    /\ player' = a.player
    /\ UNCHANGED quizVars

\* no quiz page on screen
QuizIdle ==
    /\ apiKey \in BOOLEAN
    /\ mounted = FALSE
    /\ mounts = 0
    /\ routeChanges = 0
    /\ session = 0
    /\ contentId = "a"
    /\ questions = <<>>
    /\ currentQuestionIndex = 0
    /\ userAnswers = NoAnswers
    /\ timeLeft = DEFAULT_QUIZ_DURATION_SECONDS
    /\ quizState = "loading"
    /\ score = 0
    /\ feedback = None
    /\ error = None
    /\ view = [ quizState |-> "loading", timeLeft |-> DEFAULT_QUIZ_DURATION_SECONDS,
                questions |-> <<>>, userAnswers |-> NoAnswers,
                currentQuestionIndex |-> 0, contentId |-> "a" ]
    /\ timerRef = "null"
    /\ orphanTimers = 0
    /\ pendingLoads = <<>>
    /\ pendingFeedback = <<>>
    /\ quizResults = <<>>
    /\ returned = <<>>
    /\ lastAnswer = NoAnswers
    /\ wasTaking = FALSE
    /\ interacted = FALSE

Init == AppIdle /\ QuizIdle

\* ------------------------------------------------------------- timers
\* if (timerRef.current) clearTimeout(timerRef.current)
ClearTimer(w) ==
    IF w.timerRef \in {"fresh", "live"} THEN [w EXCEPT !.timerRef = "stale"] ELSE w

\* timerRef.current = window.setTimeout(...)
SetTimer(w) ==
    [w EXCEPT !.timerRef = "fresh",
              !.orphanTimers = @ + (IF w.timerRef \in {"fresh", "live"} THEN 1 ELSE 0)]

\* ------------------------------------------------------ the store (context)
\* addQuizResult(contentId, quiz): appends the record to the history
AddQuizResult(w, quiz) == [w EXCEPT !.quizResults = Append(@, quiz)]

\* ------------------------------------------------------------ grading
TheAnswer(ua) == CHOOSE x \in ua : TRUE

\* grading that accepts an answer that starts with the correct answer
IsCorrectPrefix(q, ua) ==
    /\ ua # None
    /\ LET a == ToLowerCase(Trim(TheAnswer(ua)))
           c == ToLowerCase(Trim(q.correctAnswer))
       IN Len(a) >= Len(c) /\ SubSeq(a, 1, Len(c)) = c

\* lines 102-108: userAnswer?.trim().toLowerCase() === correctAnswer.trim().toLowerCase()
IsCorrect(q, ua) ==
    /\ ua # None
    /\ ToLowerCase(Trim(TheAnswer(ua))) = ToLowerCase(Trim(q.correctAnswer))

\* lines 101-111, one question
Answered(q, answers) ==
    LET ua == IF q.id \in DOMAIN answers THEN answers[q.id] ELSE None
    IN [q EXCEPT !.userAnswer = ua, !.isCorrect = Some(IsCorrect(q, ua))]

RECURSIVE CountCorrect(_)
CountCorrect(qs) ==
    IF qs = <<>> THEN 0
    ELSE (IF Head(qs).isCorrect = Some(TRUE) THEN 1 ELSE 0) + CountCorrect(Tail(qs))

\* ----------------------------------------------------------- handlers
\* loadQuestions up to its await, lines 70-78 (material is the one of the
\* current route: the callback is rebuilt when its extractedText changes)
LoadQuestions(w) ==
    IF ExtractedText(w.contentId) = ""
    THEN [w EXCEPT !.error = Some("Content not found or empty. Cannot generate quiz."),
                   !.quizState = "results"]
    ELSE [w EXCEPT !.quizState = "loading", !.error = None,
                   !.pendingLoads = Append(@, [session |-> w.session])]

\* line 84: q.id || `q-${Math.random()...}`; gen[i] is the i-th random draw
WithIds(qs, gen) ==
    [i \in 1..Len(qs) |-> IF qs[i].id = "" THEN [qs[i] EXCEPT !.id = gen[i]] ELSE qs[i]]

\* loadQuestions after its await resolved with qs, lines 79-86
LoadQuestionsResolved(w, qs, gen) ==
    IF Len(qs) = 0
    THEN [w EXCEPT !.error = Some("Could not generate quiz. Content might be too short or AI service unavailable."),
                   !.quizState = "results"]
    ELSE [w EXCEPT !.questions = WithIds(qs, gen), !.quizState = "taking",
                   !.timeLeft = DEFAULT_QUIZ_DURATION_SECONDS, !.returned = qs]

\* loadQuestions after its await rejected, lines 87-91
LoadQuestionsRejected(w) ==
    [w EXCEPT !.error = Some("Failed to load quiz. Check connection or API key."),
              !.quizState = "results"]

\* handleSubmitQuiz storing the remaining time as durationSeconds
HandleSubmitQuizRemaining(w) ==
    IF w.view.quizState \in {"submitting", "results"} THEN w
    ELSE
      LET v == w.view
          answeredQuestions == [i \in 1..Len(v.questions) |-> Answered(v.questions[i], v.userAnswers)]
          calculatedScore == CountCorrect(answeredQuestions)
          quizResult == [ contentId |-> v.contentId, questions |-> answeredQuestions,
                          score |-> calculatedScore,
                          durationSeconds |-> v.timeLeft,
                          session |-> w.session ]
          w1 == ClearTimer([w EXCEPT !.quizState = "submitting"])
          w2 == [w1 EXCEPT !.questions = answeredQuestions, !.score = calculatedScore]
          w3 == AddQuizResult(w2, quizResult)
      IN [w3 EXCEPT !.pendingFeedback =
                      Append(@, [session |-> w.session,
                                 score |-> calculatedScore, total |-> Len(v.questions)])]

\* handleSubmitQuiz up to its await, lines 94-125, with the values the
\* render w.view captured (contentId is a route parameter: never empty)
HandleSubmitQuiz(w) ==
    IF w.view.quizState \in {"submitting", "results"} THEN w
    ELSE
      LET v == w.view
          answeredQuestions == [i \in 1..Len(v.questions) |-> Answered(v.questions[i], v.userAnswers)]
          calculatedScore == CountCorrect(answeredQuestions)
          quizResult == [ contentId |-> v.contentId, questions |-> answeredQuestions,
                          score |-> calculatedScore,
                          durationSeconds |-> DEFAULT_QUIZ_DURATION_SECONDS - v.timeLeft,
                          session |-> w.session ]
          w1 == ClearTimer([w EXCEPT !.quizState = "submitting"])
          w2 == [w1 EXCEPT !.questions = answeredQuestions, !.score = calculatedScore]
          w3 == AddQuizResult(w2, quizResult)
      IN [w3 EXCEPT !.pendingFeedback =
                      Append(@, [session |-> w.session,
                                 score |-> calculatedScore, total |-> Len(v.questions)])]

\* the continuation of handleSubmitQuiz dropping the score when the call failed
HandleSubmitQuizSettledReset(w, req, ok) ==
    [w EXCEPT !.feedback = Some([ text |-> IF ok THEN "generated" ELSE "Could not generate AI feedback.",
                                  session |-> req.session ]),
              !.score = IF ok THEN @ ELSE 0,
              !.quizState = "results"]

\* handleSubmitQuiz after its await, lines 126-132; ok: the call resolved
HandleSubmitQuizSettled(w, req, ok) ==
    [w EXCEPT !.feedback = Some([ text |-> IF ok THEN "generated" ELSE "Could not generate AI feedback.",
                                  session |-> req.session ]),
              !.quizState = "results"]

\* an answer change that keeps the answer a question already has
HandleAnswerChangeFirstWins(w, questionId, answer) ==
    IF w.userAnswers[questionId] # None THEN w
    ELSE [w EXCEPT !.userAnswers = [@ EXCEPT ![questionId] = Some(answer)]]

\* handleAnswerChange, lines 155-157
HandleAnswerChange(w, questionId, answer) ==
    [w EXCEPT !.userAnswers = [@ EXCEPT ![questionId] = Some(answer)]]

\* ------------------------------------------------------------ effects
\* the load effect without its API key test
LoadEffectUnchecked(w) == LoadQuestions(w)

\* the effect of lines 135-142
LoadEffect(w) ==
    IF ~w.apiKey
    THEN [w EXCEPT !.error = Some("API Key not configured. Quiz unavailable."),
                   !.quizState = "results"]
    ELSE LoadQuestions(w)

\* the timer effect without its else-branch
TimerEffectNoSubmit(w) ==
    IF w.view.quizState = "taking" /\ w.view.timeLeft > 0 THEN SetTimer(w) ELSE w

\* the effect of lines 144-149, with the values of the render w.view
TimerEffect(w) ==
    IF w.view.quizState = "taking" /\ w.view.timeLeft > 0 THEN SetTimer(w)
    ELSE IF w.view.timeLeft = 0 /\ w.view.quizState = "taking" THEN HandleSubmitQuiz(w)
    ELSE w

\* a clean-up that leaves the timeout pending
TimerCleanupSkipped(w) == w

\* its clean-up, lines 150-152
TimerCleanup(w) == ClearTimer(w)

\* a timeout set while this very flush queued a render cannot fire before it
Settle(w) ==
    IF w.timerRef = "fresh" /\ ~Dirty(w) THEN [w EXCEPT !.timerRef = "live"] ELSE w

\* commit of a render: the clean-ups of the effects whose dependencies
\* changed, then their bodies in source order
Commit(w, first, loadChanged, timerChanged) ==
    LET w0 == [w EXCEPT !.view = StateView(w),
                        !.timerRef = IF @ = "fresh" THEN "live" ELSE @]
        w1 == IF timerChanged /\ ~first THEN TimerCleanup(w0) ELSE w0
        w2 == IF loadChanged THEN LoadEffect(w1) ELSE w1
        w3 == IF timerChanged THEN TimerEffect(w2) ELSE w2
    IN Settle(w3)

\* the dependencies of the timer effect, line 153 (handleSubmitQuiz: line 133)
TimerDepsChanged(old, new) ==
    \/ old.timeLeft # new.timeLeft
    \/ old.quizState # new.quizState
    \/ old.questions # new.questions
    \/ old.userAnswers # new.userAnswers
    \/ old.contentId # new.contentId
    \/ ExtractedText(old.contentId) # ExtractedText(new.contentId)

\* the dependency of the load effect, lines 92 and 142
LoadDepsChanged(old, new) ==
    ExtractedText(old.contentId) # ExtractedText(new.contentId)

\* a render of the mounted component
Render(w) ==
    Commit(w, FALSE, LoadDepsChanged(w.view, StateView(w)),
           TimerDepsChanged(w.view, StateView(w)))

\* ------------------------------------------------------------ actions
RemoveAt(seq, i) == SubSeq(seq, 1, i - 1) \o SubSeq(seq, i + 1, Len(seq))

\* the route /quiz/:contentId is entered: a new instance, its first render
\* and its effects
Mount(cid) ==
    /\ ~mounted
    /\ mounts = 0
    /\ Becomes(Commit(InitialCells([World EXCEPT !.mounted = TRUE, !.mounts = @ + 1,
                                                 !.session = @ + 1, !.contentId = cid,
                                                 !.quizResults = <<>>,
                                                 !.wasTaking = FALSE, !.interacted = FALSE]),
                      TRUE, TRUE, TRUE))

\* the user leaves the quiz route: the clean-up of lines 150-152 runs and
\* the instance is gone (its cells are no longer observable)
Unmount ==
    /\ mounted
    /\ LET w0 == InitialCells([TimerCleanup(World) EXCEPT !.mounted = FALSE, !.contentId = "a",
                                                         !.quizResults = <<>>,
                                                         !.returned = <<>>, !.wasTaking = FALSE,
                                                         !.interacted = FALSE])
           w1 == [w0 EXCEPT !.timerRef = "null"]
       IN Becomes([w1 EXCEPT !.view = StateView(w1)])

\* the route's contentId changes while the page stays mounted: the same
\* instance renders with the new parameter
RouteChange(cid) ==
    /\ mounted
    /\ cid # contentId
    /\ routeChanges < MaxRouteChanges
    /\ Becomes(Render([World EXCEPT !.contentId = cid, !.session = @ + 1,
                                    !.routeChanges = @ + 1, !.quizResults = <<>>,
                                    !.wasTaking = FALSE,
                                    !.interacted = TRUE]))

\* the render queued by an update made outside a user event
Rerender ==
    /\ Dirty(World)
    /\ Becomes(Render(World))

\* a pending timeout fires: setTimeLeft(prevTime => prevTime - 1), line 146
Tick ==
    /\ mounted
    /\ \E which \in (IF timerRef = "live" THEN {"ref"} ELSE {})
                    \cup (IF orphanTimers > 0 THEN {"orphan"} ELSE {}) :
         Becomes([World EXCEPT !.timeLeft = @ - 1,
                               !.timerRef = IF which = "ref" THEN "stale" ELSE @,
                               !.orphanTimers = IF which = "orphan" THEN @ - 1 ELSE @])

\* generateQuizQuestions resolves
LoadResolved(i, qs, gen) ==
    /\ i \in 1..Len(pendingLoads)
    /\ mounted
    /\ Becomes(LoadQuestionsResolved([World EXCEPT !.pendingLoads = RemoveAt(@, i)], qs, gen))

\* generateQuizQuestions rejects
LoadRejected(i) ==
    /\ i \in 1..Len(pendingLoads)
    /\ mounted
    /\ Becomes(LoadQuestionsRejected([World EXCEPT !.pendingLoads = RemoveAt(@, i)]))

\* generateFeedbackOnQuiz resolves (ok) or rejects
FeedbackSettled(i, ok) ==
    /\ i \in 1..Len(pendingFeedback)
    /\ mounted
    /\ Becomes(HandleSubmitQuizSettled([World EXCEPT !.pendingFeedback = RemoveAt(@, i)],
                                       pendingFeedback[i], ok))

\* a call of the instance that is gone settles: its setters change nothing
SettledAfterUnmount ==
    \/ \E i \in 1..Len(pendingLoads) :
         /\ ~mounted
         /\ Becomes([World EXCEPT !.pendingLoads = RemoveAt(@, i)])
    \/ \E i \in 1..Len(pendingFeedback) :
         /\ ~mounted
         /\ Becomes([World EXCEPT !.pendingFeedback = RemoveAt(@, i)])

\* what the last render put on screen, lines 159-265
FormShown ==
    /\ mounted
    /\ view.quizState \in {"taking", "submitting"}
    /\ view.currentQuestionIndex + 1 <= Len(view.questions)
CurrentQ == view.questions[view.currentQuestionIndex + 1]
NextShown == view.currentQuestionIndex < Len(view.questions) - 1

Max(a, b) == IF a >= b THEN a ELSE b
Min(a, b) == IF a <= b THEN a ELSE b

\* an option is selected or text is typed, lines 228 and 239
AnswerChange(answer) ==
    /\ FormShown
    /\ Becomes(Render([HandleAnswerChange(World, CurrentQ.id, answer)
                          EXCEPT !.interacted = TRUE,
                                 !.lastAnswer = [@ EXCEPT ![CurrentQ.id] = Some(answer)]]))

\* the Previous button, lines 248-255
Previous ==
    /\ FormShown
    /\ view.currentQuestionIndex # 0
    /\ Becomes(Render([World EXCEPT !.currentQuestionIndex = Max(0, @ - 1),
                                    !.interacted = TRUE]))

\* the Next button, lines 256-259
NextQuestion ==
    /\ FormShown
    /\ NextShown
    /\ Becomes(Render([World EXCEPT !.currentQuestionIndex = Min(Len(view.questions) - 1, @ + 1),
                                    !.interacted = TRUE]))

\* the Submit Quiz button, lines 260-264
ClickSubmit ==
    /\ FormShown
    /\ ~NextShown
    /\ Becomes(Render([HandleSubmitQuiz(World) EXCEPT !.interacted = TRUE]))

Next ==
    \/ \E cid \in FirstRoutes : Mount(cid)
    \/ Unmount
    \/ \E cid \in ContentIds : RouteChange(cid)
    \/ Rerender
    \/ Tick
    \/ \E i \in 1..Len(pendingLoads), qs \in GatewayQuestionSets, gen \in Draws :
         LoadResolved(i, qs, gen)
    \/ \E i \in 1..Len(pendingLoads) : LoadRejected(i)
    \/ \E i \in 1..Len(pendingFeedback), ok \in BOOLEAN : FeedbackSettled(i, ok)
    \/ SettledAfterUnmount
    \/ \E answer \in Answers : AnswerChange(answer)
    \/ Previous
    \/ NextQuestion
    \/ ClickSubmit

Spec == Init /\ [][Next]_vars

\* ---------------------------------------------------------- type check
TypeOK ==
    /\ quizState \in {"loading", "taking", "submitting", "results"}
    /\ timerRef \in {"null", "fresh", "live", "stale"}
    /\ timeLeft \in -1..DEFAULT_QUIZ_DURATION_SECONDS
    /\ orphanTimers \in 0..1

\* --------------------------------------------- loading alone (LoadSpec)
\* the lists generateQuizQuestions may resolve to, up to MaxLoaded questions,
\* each with or without an id of its own
MaxLoaded == 3

RECURSIVE QuestionLists(_)
QuestionLists(n) ==
    IF n = 0 THEN { <<>> }
    ELSE QuestionLists(n - 1)
         \cup { Append(qs, Question(id)) : qs \in { l \in QuestionLists(n - 1) : Len(l) = n - 1 },
                                            id \in {""} \cup GatewayIds }

LoadNext ==
    \/ \E cid \in ContentIds : Mount(cid)
    \/ \E qs \in QuestionLists(MaxLoaded), gen \in [1..MaxLoaded -> GeneratedIds] :
         LoadResolved(1, qs, gen)
    \/ LoadRejected(1)
    \/ Rerender

LoadSpec == Init /\ [][LoadNext]_vars

\* --------------------------------------------- grading alone (GradeSpec)
\* the characters of the answers that are graded and the longest answer
Chars == {" ", "p", "P", ","}
MaxStr == 3

RECURSIVE Strings(_)
Strings(n) ==
    IF n = 0 THEN { <<>> }
    ELSE Strings(n - 1)
         \cup { Append(s, c) : s \in { t \in Strings(n - 1) : Len(t) = n - 1 }, c \in Chars }

\* a session in `taking` on its last question: the gateway returned two
\* questions, the first with any correct answer, and the user typed any
\* answer (or none) for the first and none for the second
GradeInit ==
    \E ca \in Strings(MaxStr), ua \in {None} \cup { Some(a) : a \in Strings(MaxStr) } :
      LET q1 == [Question("g1") EXCEPT !.correctAnswer = ca]
          qs == << q1, Question("q-r1") >>
      IN /\ AppIdle
         /\ apiKey = TRUE
         /\ mounted = TRUE
         /\ mounts = 1
         /\ routeChanges = 0
         /\ session = 1
         /\ contentId = "a"
         /\ questions = qs
         /\ currentQuestionIndex = 1
         /\ userAnswers = [NoAnswers EXCEPT !["g1"] = ua]
         /\ timeLeft = DEFAULT_QUIZ_DURATION_SECONDS
         /\ quizState = "taking"
         /\ score = 0
         /\ feedback = None
         /\ error = None
         /\ view = [ quizState |-> "taking", timeLeft |-> DEFAULT_QUIZ_DURATION_SECONDS,
                     questions |-> qs, userAnswers |-> [NoAnswers EXCEPT !["g1"] = ua],
                     currentQuestionIndex |-> 1, contentId |-> "a" ]
         /\ timerRef = "live"
         /\ orphanTimers = 0
         /\ pendingLoads = <<>>
         /\ pendingFeedback = <<>>
         /\ quizResults = <<>>
         /\ returned = << q1, Question("") >>
         /\ lastAnswer = [NoAnswers EXCEPT !["g1"] = ua]
         /\ wasTaking = TRUE
         /\ interacted = (ua # None)

GradeNext ==
    \/ ClickSubmit
    \/ \E ok \in BOOLEAN : FeedbackSettled(1, ok)
    \/ Rerender

GradeSpec == GradeInit /\ [][GradeNext]_vars

\* ------------------------------------- answering and moving (AnswerSpec)
\* the texts typed or options selected ("" : the text was deleted again)
AnswerValues == { <<"p">>, <<"P", ",">>, <<>> }

AnswerNext ==
    \/ Mount("a")
    \/ Rerender
    \/ Tick
    \/ \E qs \in GatewayQuestionSets, gen \in Draws : LoadResolved(1, qs, gen)
    \/ \E answer \in AnswerValues : AnswerChange(answer)
    \/ Previous
    \/ NextQuestion
    \/ ClickSubmit
    \/ \E ok \in BOOLEAN : FeedbackSettled(1, ok)

AnswerSpec == Init /\ [][AnswerNext]_vars

\* ------------------------------------------------- the content store
\* a material's id: `content_${Date.now()}` of the upload at time t
ContentIdOf(t) == << "content_", t >>

\* a stored material as addContent receives it (the derived fields absent)
UploadedContent(t, extractedText) ==
    [ id |-> ContentIdOf(t), extractedText |-> extractedText, aiExplanation |-> None,
      notes |-> [l \in NoteLevels |-> None], chatHistory |-> <<>>,
      blockDiagramMermaid |-> None, presentationContent |-> None, videoScenes |-> None ]

Material(t) == UploadedContent(t, "text")

\* addContent(material) that does not look for the id
AddContentUnchecked(ms, m) == Append(ms, m)

\* addContent(material): a material whose id is stored already is refused
AddContent(ms, m) ==
    IF \E i \in 1..Len(ms) : ms[i].id = m.id THEN ms ELSE Append(ms, m)

\* addContent(material) fails with DuplicateIdError
AddContentThrows(ms, m) == \E i \in 1..Len(ms) : ms[i].id = m.id

\* getStudyMaterialById(id): the material or nothing
GetStudyMaterialById(ms, id) == { ms[i] : i \in { k \in 1..Len(ms) : ms[k].id = id } }

\* a shallow merge that drops the fields the partial does not name
MergeDropping(m, partial) ==
    [f \in DOMAIN m |-> IF f \in DOMAIN partial THEN partial[f]
                         ELSE IF f \in {"id", "extractedText"} THEN m[f]
                         ELSE Material(0)[f]]

\* { ...material, ...partialFields }
Merge(m, partial) ==
    [f \in DOMAIN m |-> IF f \in DOMAIN partial THEN partial[f] ELSE m[f]]

\* updateStudyMaterial(id, partialFields) on the state a: a shallow merge
\* into the material of that id, nothing if there is none
UpdateStudyMaterial(a, id, partial) ==
    [a EXCEPT !.studyMaterials =
                [i \in 1..Len(@) |-> IF @[i].id = id THEN Merge(@[i], partial) ELSE @[i]],
              !.lastUpdate = [flip |-> ~@.flip, id |-> Some(id), partial |-> partial]]

\* getQuizzesForContent(id): the Quiz records of that content id
GetQuizzesForContent(qz, id) == SelectSeq(qz, LAMBDA q : q.contentId = id)

\* ----------------------------------------------- the dashboard (DashSpec)
\* (x).toFixed(1) of x = 100 * num / den, in tenths: the nearest tenth, the
\* larger one of two equally near
ToFixed1(num, den) == (2000 * num + den) \div (2 * den)

RECURSIVE QuizTotals(_)
\* lines 20-25: the totals over the counted quizzes of one material
QuizTotals(qs) ==
    IF qs = <<>> THEN [score |-> 0, questions |-> 0]
    ELSE LET rest == QuizTotals(Tail(qs))
             quiz == Head(qs)
         IN IF Len(quiz.questions) > 0
            THEN [score |-> rest.score + quiz.score,
                  questions |-> rest.questions + Len(quiz.questions)]
            ELSE rest

RECURSIVE MaterialTotals(_, _)
\* lines 18-26: the totals over the materials
MaterialTotals(ms, qz) ==
    IF ms = <<>> THEN [score |-> 0, questions |-> 0]
    ELSE LET rest == MaterialTotals(Tail(ms), qz)
             mine == QuizTotals(GetQuizzesForContent(qz, Head(ms).id))
         IN [score |-> rest.score + mine.score, questions |-> rest.questions + mine.questions]

\* the average cut off after the first decimal instead of rounded
GetAverageQuizScoreTruncated(ms, qz) ==
    LET t == MaterialTotals(ms, qz)
    IN IF t.questions = 0 THEN 0 ELSE (1000 * t.score) \div t.questions

\* getAverageQuizScore, lines 15-29, in tenths of a percent
GetAverageQuizScore(ms, qz) ==
    LET t == MaterialTotals(ms, qz)
    IN IF t.questions = 0 THEN 0 ELSE ToFixed1(t.score, t.questions)

\* the most questions of a stored quiz
MaxQuizQuestions == 5

\* a stored Quiz with n questions, `correct` of them marked correct
StoredQuiz(t, n, correct) ==
    [ contentId |-> ContentIdOf(t), score |-> correct,
      questions |-> [i \in 1..n |-> [isCorrect |-> Some(i <= correct)]] ]

QuizChoices ==
    { StoredQuiz(t, n, c) : t \in {0, 1},
                            n \in 0..MaxQuizQuestions, c \in 0..MaxQuizQuestions }

\* a store after up to two uploads and up to two quizzes (a quiz may be of a
\* content id that has no material), the dashboard not on screen
DashInit ==
    /\ QuizIdle
    /\ apiKey
    /\ studyMaterials \in { <<>>, << Material(0) >>, << Material(0), Material(1) >> }
    /\ quizzes \in { <<>> } \cup { << q >> : q \in { c \in QuizChoices : c.score <= Len(c.questions) } }
                   \cup { << q1, q2 >> : q1, q2 \in { c \in QuizChoices : c.score <= Len(c.questions) } }
    /\ PagesIdle

\* DashboardPage renders, lines 8-52: nothing to average without materials
DashboardRender ==
    /\ ~dashboard.mounted
    /\ AppBecomes([App EXCEPT !.dashboard =
                      [ mounted |-> TRUE,
                        averageScore |-> IF Len(studyMaterials) = 0 THEN None
                                         ELSE Some(GetAverageQuizScore(studyMaterials, quizzes)) ]])

\* the user leaves the dashboard
DashboardLeave ==
    /\ dashboard.mounted
    /\ AppBecomes([App EXCEPT !.dashboard = [mounted |-> FALSE, averageScore |-> None]])

DashNext == DashboardRender \/ DashboardLeave

DashSpec == DashInit /\ [][DashNext]_vars

\* ------------------------------------------- the study page (StudySpec)
MaxMessages == 2
MaxGenerations == 2
MaxStudyMounts == 2

\* what the user types into the chat box
ChatInputs == { <<"p">>, <<" ">> }

\* what the generators return
GeneratedTexts == {"t1", "t2"}
MermaidCodes == {"", "graph", "bad"}

\* rendering MermaidDiagram with this chart throws
MermaidDiagramThrows(chart) == chart = Some("bad")

\* a ChatMessage: who wrote it and for which send (ids are msg_<time>, err_<time>)
ChatMessage(sender, n) == [sender |-> sender, n |-> n]

The(opt) == CHOOSE x \in opt : TRUE

\* what a render of StudyPage sees
StudyRendered(a) == [cells |-> a.study, store |-> a.studyMaterials]

StudyDirty(a) == a.study.mounted /\ a.studyView # StudyRendered(a)

StudyGone(a) ==
    [a EXCEPT !.study = NoStudy(@.instance),
              !.studyView = [cells |-> NoStudy(0), store |-> <<>>]]

\* navigate('/'): the home page replaces the study page
NavigateHome(a) == [StudyGone(a) EXCEPT !.home = HomeCells(@.instance + 1)]

\* the lookup effect finding nothing redirects whatever the store holds
LookupEffectRedirects(a) == NavigateHome(a)

\* the effect that looks the material up, QuizPage.tsx:509-521
LookupEffect(a) ==
    LET foundMaterial == IF a.study.contentId = None THEN None
                         ELSE GetStudyMaterialById(a.studyMaterials, The(a.study.contentId))
    IN  IF foundMaterial = None THEN NavigateHome(a)
        ELSE [a EXCEPT !.study.material = foundMaterial]

\* the ErrorBoundary around the diagram section, ErrorBoundary.tsx:13-44: an
\* error thrown while its children render sets hasError, and nothing resets it
ErrorBoundaryRender(a) ==
    IF /\ ~a.study.hasError
       /\ a.study.material # None
       /\ MermaidDiagramThrows(The(a.study.material).blockDiagramMermaid)
    THEN [a EXCEPT !.study.hasError = TRUE]
    ELSE a

\* a render of StudyPage, its effects, and the render they cause
StudyRender(a) ==
    IF ~a.study.mounted THEN a
    ELSE LET b == LookupEffect(a)
         IN  IF b.study.mounted
             THEN LET c == ErrorBoundaryRender(b)
                  IN  [c EXCEPT !.studyView = StudyRendered(c)]
             ELSE b

\* setters of an instance that is no longer on screen do nothing
StudySet(a, instance, cells) ==
    IF a.study.mounted /\ a.study.instance = instance THEN [a EXCEPT !.study = cells] ELSE a

Without(seq, i) == SubSeq(seq, 1, i - 1) \o SubSeq(seq, i + 1, Len(seq))

\* handleSendMessage up to its await, QuizPage.tsx:574-603
HandleSendMessage(a) ==
    LET v == a.studyView.cells
    IN  IF Trim(v.chatInput) = <<>> \/ v.material = None THEN a
        ELSE LET material == The(v.material)
                 userMessage == ChatMessage("user", a.sent + 1)
                 b == UpdateStudyMaterial(a, material.id,
                        [chatHistory |-> Append(material.chatHistory, userMessage)])
             IN  [b EXCEPT !.study.chatInput = <<>>,
                           !.study.isAwaitingChatResponse = TRUE,
                           !.study.error.chat = None,
                           !.sent = @ + 1,
                           !.pendingChats = Append(@, [ material |-> material,
                                                        userMessage |-> userMessage,
                                                        instance |-> v.instance ])]

\* handleSendMessage after sendMessageToChat resolved, QuizPage.tsx:605-615, 628
HandleSendMessageResolved(a, i) ==
    LET req == a.pendingChats[i]
        aiMessage == ChatMessage("ai", req.userMessage.n)
        b == UpdateStudyMaterial(a, req.material.id,
               [chatHistory |-> req.material.chatHistory \o << req.userMessage, aiMessage >>])
        c == StudySet(b, req.instance, [b.study EXCEPT !.isAwaitingChatResponse = FALSE])
    IN  [c EXCEPT !.pendingChats = Without(@, i)]

\* handleSendMessage after sendMessageToChat rejected, QuizPage.tsx:617-628
HandleSendMessageRejected(a, i) ==
    LET req == a.pendingChats[i]
        errorMessage == ChatMessage("err", req.userMessage.n)
        currentMaterial == GetStudyMaterialById(a.studyMaterials, req.material.id)
        history == IF currentMaterial = None THEN <<>> ELSE The(currentMaterial).chatHistory
        b == UpdateStudyMaterial(a, req.material.id,
               [chatHistory |-> Append(history, errorMessage)])
        c == StudySet(b, req.instance, [b.study EXCEPT !.isAwaitingChatResponse = FALSE])
    IN  [c EXCEPT !.pendingChats = Without(@, i)]

\* handleGenerate up to its await, QuizPage.tsx:548-556
HandleGenerate(a, type) ==
    LET v == a.studyView.cells
    IN  IF v.material = None THEN a
        ELSE LET material == The(v.material)
             IN  [a EXCEPT !.study.isLoading[type] = TRUE,
                           !.study.error[type] = None,
                           !.started = @ + 1,
                           !.pendingGenerates = Append(@, [ type |-> type,
                                                            material |-> material,
                                                            level |-> v.selectedNoteLength,
                                                            instance |-> v.instance,
                                                            content |-> "" ])]

\* handleGenerate writing its result over the material's text
HandleGenerateResolvedOverText(a, i, result) ==
    LET req == a.pendingGenerates[i]
        b == UpdateStudyMaterial(a, req.material.id, [extractedText |-> result])
        c == StudySet(b, req.instance, [b.study EXCEPT !.isLoading[req.type] = FALSE])
    IN  [c EXCEPT !.pendingGenerates = Without(@, i)]

\* handleGenerate after the generator resolved, QuizPage.tsx:557-559, 564
HandleGenerateResolved(a, i, result) ==
    LET req == a.pendingGenerates[i]
        partial == IF req.type = "notes"
                   THEN [notes |-> [req.material.notes EXCEPT ![req.level] = Some(result)]]
                   ELSE [aiExplanation |-> Some(result)]
        b == UpdateStudyMaterial(a, req.material.id, partial)
        c == StudySet(b, req.instance, [b.study EXCEPT !.isLoading[req.type] = FALSE])
    IN  [c EXCEPT !.pendingGenerates = Without(@, i)]

\* handleGenerate without its catch and finally: the rejection leaves the cells
HandleGenerateUncaught(a, i) == [a EXCEPT !.pendingGenerates = Without(@, i)]

\* handleGenerate after the generator rejected, QuizPage.tsx:560-564
HandleGenerateRejected(a, i) ==
    LET req == a.pendingGenerates[i]
        c == StudySet(a, req.instance,
               [a.study EXCEPT !.error[req.type] = Some("Failed to generate"),
                               !.isLoading[req.type] = FALSE])
    IN  [c EXCEPT !.pendingGenerates = Without(@, i)]

\* handleGenerateBlockDiagram up to its await, QuizPage.tsx:780-788
HandleGenerateBlockDiagram(a) ==
    LET v == a.studyView.cells
    IN  IF v.material = None \/ The(v.material).aiExplanation \in {None, Some("")}
        THEN [a EXCEPT !.study.diagramError = Some("Please generate an explanation first.")]
        ELSE [a EXCEPT !.study.isGeneratingDiagram = TRUE,
                       !.study.diagramError = None,
                       !.started = @ + 1,
                       !.pendingGenerates = Append(@, [ type |-> "diagram",
                                                        material |-> The(v.material),
                                                        level |-> v.selectedNoteLength,
                                                        instance |-> v.instance,
                                                        content |-> "" ])]

\* handleGenerateBlockDiagram after generateBlockDiagram resolved, QuizPage.tsx:789, 794
HandleGenerateBlockDiagramResolved(a, i, mermaidCode) ==
    LET req == a.pendingGenerates[i]
        b == UpdateStudyMaterial(a, req.material.id,
               [blockDiagramMermaid |-> Some(IF mermaidCode = "" THEN "error" ELSE mermaidCode)])
        c == StudySet(b, req.instance, [b.study EXCEPT !.isGeneratingDiagram = FALSE])
    IN  [c EXCEPT !.pendingGenerates = Without(@, i)]

\* handleGenerateBlockDiagram after generateBlockDiagram rejected, QuizPage.tsx:790-794
HandleGenerateBlockDiagramRejected(a, i) ==
    LET req == a.pendingGenerates[i]
        b == UpdateStudyMaterial(a, req.material.id, [blockDiagramMermaid |-> Some("error")])
        c == StudySet(b, req.instance,
               [b.study EXCEPT !.diagramError = Some("Failed to generate diagram."),
                               !.isGeneratingDiagram = FALSE])
    IN  [c EXCEPT !.pendingGenerates = Without(@, i)]

\* handleGenerateFullPresentation up to its first await, QuizPage.tsx:632-645
HandleGenerateFullPresentation(a) ==
    LET v == a.studyView.cells
    IN  IF v.material = None \/ The(v.material).aiExplanation \in {None, Some("")}
        THEN [a EXCEPT !.study.presentationError =
                         Some("An explanation must be generated first to create a presentation.")]
        ELSE [a EXCEPT !.study.isGeneratingPresentation = TRUE,
                       !.study.presentationError = None,
                       !.started = @ + 1,
                       !.pendingGenerates = Append(@, [ type |-> "presentation",
                                                        material |-> The(v.material),
                                                        level |-> v.selectedNoteLength,
                                                        instance |-> v.instance,
                                                        content |-> "" ])]

\* a catch that leaves the stored presentation as it is
HandleGenerateFullPresentationKeeps(a, i) ==
    LET req == a.pendingGenerates[i]
        b == StudySet(a, req.instance,
               [a.study EXCEPT !.presentationError = Some("Presentation generation failed."),
                               !.isGeneratingPresentation = FALSE])
    IN  [b EXCEPT !.pendingGenerates = Without(@, i)]

\* the catch and finally of handleGenerateFullPresentation, QuizPage.tsx:669-677
HandleGenerateFullPresentationCaught(a, i) ==
    LET req == a.pendingGenerates[i]
        b == StudySet(a, req.instance,
               [a.study EXCEPT !.presentationError = Some("Presentation generation failed.")])
        c == UpdateStudyMaterial(b, req.material.id, [presentationContent |-> None])
        d == StudySet(c, req.instance, [c.study EXCEPT !.isGeneratingPresentation = FALSE])
    IN  [d EXCEPT !.pendingGenerates = Without(@, i)]

\* handleGenerateFullPresentation after generatePresentationContent resolved,
\* QuizPage.tsx:645-659: content is "" for none
HandleGenerateFullPresentationContent(a, i, content) ==
    LET req == a.pendingGenerates[i]
    IN  IF content = "" THEN HandleGenerateFullPresentationCaught(a, i)
        ELSE LET b == UpdateStudyMaterial(a, req.material.id,
                        [presentationContent |-> Some(content)])
             IN  [b EXCEPT !.pendingGenerates[i].content = content]

\* handleGenerateFullPresentation after generatePresentationImages resolved,
\* QuizPage.tsx:659-677: images is "" for none, "slides+some" when a slide has no image
HandleGenerateFullPresentationImages(a, i, images) ==
    LET req == a.pendingGenerates[i]
    IN  IF images = "" THEN HandleGenerateFullPresentationCaught(a, i)
        ELSE LET b == UpdateStudyMaterial(a, req.material.id,
                        [presentationContent |-> Some(images)])
                 c == IF images = "slides+some"
                      THEN StudySet(b, req.instance,
                             [b.study EXCEPT !.presentationError =
                                Some("Some slide visuals could not be generated.")])
                      ELSE b
                 d == StudySet(c, req.instance,
                        [c.study EXCEPT !.isGeneratingPresentation = FALSE])
             IN  [d EXCEPT !.pendingGenerates = Without(@, i)]

\* handleGenerateVideo up to its await, QuizPage.tsx:798-807
HandleGenerateVideo(a) ==
    LET v == a.studyView.cells
    IN  IF v.material = None \/ The(v.material).aiExplanation \in {None, Some("")}
        THEN [a EXCEPT !.study.error.video =
                         Some("Please generate an explanation first to create a video.")]
        ELSE [a EXCEPT !.study.isLoading.video = TRUE,
                       !.study.error.video = None,
                       !.started = @ + 1,
                       !.pendingGenerates = Append(@, [ type |-> "video",
                                                        material |-> The(v.material),
                                                        level |-> v.selectedNoteLength,
                                                        instance |-> v.instance,
                                                        content |-> "" ])]

\* handleGenerateVideo after generateVideoAssets resolved, QuizPage.tsx:807-818:
\* scenes is the number of scenes, 0 for none
HandleGenerateVideoResolved(a, i, scenes) ==
    LET req == a.pendingGenerates[i]
        b == UpdateStudyMaterial(a, req.material.id, [videoScenes |-> Some(scenes)])
        c == StudySet(b, req.instance, [b.study EXCEPT !.isLoading.video = FALSE])
    IN  [c EXCEPT !.pendingGenerates = Without(@, i)]

\* handleGenerateVideo after generateVideoAssets rejected, QuizPage.tsx:812-818
HandleGenerateVideoRejected(a, i) ==
    LET req == a.pendingGenerates[i]
        c == StudySet(a, req.instance,
               [a.study EXCEPT !.error.video = Some("video generation failed"),
                               !.isLoading.video = FALSE])
    IN  [c EXCEPT !.pendingGenerates = Without(@, i)]

\* the ids a study page is opened for: two uploads and one that was never made
StudyRoutes == { ContentIdOf(0), ContentIdOf(1), ContentIdOf(9) }

\* the user opens /study/:contentId
StudyMount(cid) ==
    /\ ~study.mounted
    /\ study.instance < MaxStudyMounts
    /\ AppBecomes(StudyRender([App EXCEPT !.study = StudyCells(@.instance + 1, Some(cid)),
                                          !.home = NoHome(@.instance)]))

\* the user navigates away from the study page
StudyUnmount ==
    /\ study.mounted
    /\ AppBecomes(StudyGone(App))

\* React renders StudyPage after updates made outside an event handler
StudyRerender ==
    /\ StudyDirty(App)
    /\ AppBecomes(StudyRender(App))

\* the page shows its content, not the spinner of QuizPage.tsx:822-824
StudyShown == study.mounted /\ studyView.cells.material # None

\* the user types into the chat box (disabled while a response is awaited)
TypeChat(text) ==
    /\ StudyShown
    /\ ~studyView.cells.isAwaitingChatResponse
    /\ AppBecomes(StudyRender([App EXCEPT !.study.chatInput = text]))

\* the user presses Enter in the chat box or clicks Send
SendMessage ==
    /\ StudyShown
    /\ ~studyView.cells.isAwaitingChatResponse
    /\ sent < MaxMessages
    /\ AppBecomes(StudyRender(HandleSendMessage(App)))

ChatResolved(i) == AppBecomes(HandleSendMessageResolved(App, i))

ChatRejected(i) == AppBecomes(HandleSendMessageRejected(App, i))

\* the user picks a level of detail for the notes
SelectNoteLength(level) ==
    /\ StudyShown
    /\ AppBecomes(StudyRender([App EXCEPT !.study.selectedNoteLength = level]))

\* the user clicks Generate Explanation or Generate Notes
ClickGenerate(type) ==
    /\ StudyShown
    /\ The(studyView.cells.material).extractedText # ""
    /\ ~studyView.cells.isLoading[type]
    /\ started < MaxGenerations
    /\ AppBecomes(StudyRender(HandleGenerate(App, type)))

\* the user clicks Generate Diagram
ClickGenerateBlockDiagram ==
    /\ StudyShown
    /\ ~studyView.cells.hasError
    /\ The(studyView.cells.material).aiExplanation \notin {None, Some("")}
    /\ ~studyView.cells.isGeneratingDiagram
    /\ started < MaxGenerations
    /\ AppBecomes(StudyRender(HandleGenerateBlockDiagram(App)))

GenerateResolved(i, result) ==
    /\ pendingGenerates[i].type \in {"explanation", "notes"}
    /\ AppBecomes(HandleGenerateResolved(App, i, result))

GenerateRejected(i) ==
    /\ pendingGenerates[i].type \in {"explanation", "notes"}
    /\ AppBecomes(HandleGenerateRejected(App, i))

BlockDiagramResolved(i, mermaidCode) ==
    /\ pendingGenerates[i].type = "diagram"
    /\ AppBecomes(HandleGenerateBlockDiagramResolved(App, i, mermaidCode))

BlockDiagramRejected(i) ==
    /\ pendingGenerates[i].type = "diagram"
    /\ AppBecomes(HandleGenerateBlockDiagramRejected(App, i))

\* what generatePresentationContent, generatePresentationImages and
\* generateVideoAssets return ("" and 0: nothing)
SlideContents == {"", "slides"}
SlideImages == {"", "slides+images", "slides+some"}
SceneCounts == {0, 2}

\* the user clicks Generate Presentation or Regenerate
ClickGeneratePresentation ==
    /\ StudyShown
    /\ ~studyView.cells.isGeneratingPresentation
    /\ \/ The(studyView.cells.material).presentationContent # None
       \/ The(studyView.cells.material).aiExplanation \notin {None, Some("")}
    /\ started < MaxGenerations
    /\ AppBecomes(StudyRender(HandleGenerateFullPresentation(App)))

PresentationContentResolved(i, content) ==
    /\ pendingGenerates[i].type = "presentation"
    /\ pendingGenerates[i].content = ""
    /\ AppBecomes(HandleGenerateFullPresentationContent(App, i, content))

PresentationImagesResolved(i, images) ==
    /\ pendingGenerates[i].type = "presentation"
    /\ pendingGenerates[i].content # ""
    /\ AppBecomes(HandleGenerateFullPresentationImages(App, i, images))

PresentationRejected(i) ==
    /\ pendingGenerates[i].type = "presentation"
    /\ AppBecomes(HandleGenerateFullPresentationCaught(App, i))

\* the user clicks Generate Video
ClickGenerateVideo ==
    /\ StudyShown
    /\ The(studyView.cells.material).aiExplanation \notin {None, Some("")}
    /\ ~studyView.cells.isLoading.video
    /\ started < MaxGenerations
    /\ AppBecomes(StudyRender(HandleGenerateVideo(App)))

VideoResolved(i, scenes) ==
    /\ pendingGenerates[i].type = "video"
    /\ AppBecomes(HandleGenerateVideoResolved(App, i, scenes))

VideoRejected(i) ==
    /\ pendingGenerates[i].type = "video"
    /\ AppBecomes(HandleGenerateVideoRejected(App, i))

\* two materials uploaded earlier, no page on screen
StudyInit ==
    /\ QuizIdle
    /\ apiKey
    /\ studyMaterials = << Material(0), Material(1) >>
    /\ quizzes = <<>>
    /\ PagesIdle

\* chatting on the study page
ChatNext ==
    \/ \E cid \in StudyRoutes : StudyMount(cid)
    \/ StudyUnmount
    \/ StudyRerender
    \/ \E text \in ChatInputs : TypeChat(text)
    \/ SendMessage
    \/ \E i \in 1..Len(pendingChats) : ChatResolved(i)
    \/ \E i \in 1..Len(pendingChats) : ChatRejected(i)

ChatSpec == StudyInit /\ [][ChatNext]_vars

\* generating on the study page
StudyNext ==
    \/ \E cid \in StudyRoutes : StudyMount(cid)
    \/ StudyUnmount
    \/ StudyRerender
    \/ \E level \in NoteLevels : SelectNoteLength(level)
    \/ \E type \in {"explanation", "notes"} : ClickGenerate(type)
    \/ ClickGenerateBlockDiagram
    \/ \E i \in 1..Len(pendingGenerates), result \in GeneratedTexts : GenerateResolved(i, result)
    \/ \E i \in 1..Len(pendingGenerates) : GenerateRejected(i)
    \/ \E i \in 1..Len(pendingGenerates), code \in MermaidCodes : BlockDiagramResolved(i, code)
    \/ \E i \in 1..Len(pendingGenerates) : BlockDiagramRejected(i)

StudySpec == StudyInit /\ [][StudyNext]_vars

\* a material with an explanation (an empty one: handleGenerate stores what the
\* gateway returned), with or without a presentation, and one without; no page
\* on screen
VisualInit ==
    /\ QuizIdle
    /\ apiKey
    /\ \E e \in {Some("t1"), Some("")}, p \in {None, Some("slides+images")} :
         studyMaterials = << [Material(0) EXCEPT !.aiExplanation = e,
                                                 !.presentationContent = p],
                             Material(1) >>
    /\ quizzes = <<>>
    /\ PagesIdle

\* generating a presentation and a video on the study page
VisualNext ==
    \/ \E cid \in StudyRoutes : StudyMount(cid)
    \/ StudyUnmount
    \/ StudyRerender
    \/ ClickGeneratePresentation
    \/ \E i \in 1..Len(pendingGenerates), content \in SlideContents :
         PresentationContentResolved(i, content)
    \/ \E i \in 1..Len(pendingGenerates), images \in SlideImages :
         PresentationImagesResolved(i, images)
    \/ \E i \in 1..Len(pendingGenerates) : PresentationRejected(i)
    \/ ClickGenerateVideo
    \/ \E i \in 1..Len(pendingGenerates), scenes \in SceneCounts : VideoResolved(i, scenes)
    \/ \E i \in 1..Len(pendingGenerates) : VideoRejected(i)

VisualSpec == VisualInit /\ [][VisualNext]_vars

\* a quiz session in `taking` on its last question, nothing answered
QuizTaking ==
    LET qs == << Question("g1"), Question("q-r1") >>
    IN /\ apiKey = TRUE
       /\ mounted = TRUE
       /\ mounts = 1
       /\ routeChanges = 0
       /\ session = 1
       /\ contentId = "a"
       /\ questions = qs
       /\ currentQuestionIndex = 1
       /\ userAnswers = NoAnswers
       /\ timeLeft = DEFAULT_QUIZ_DURATION_SECONDS
       /\ quizState = "taking"
       /\ score = 0
       /\ feedback = None
       /\ error = None
       /\ view = [ quizState |-> "taking", timeLeft |-> DEFAULT_QUIZ_DURATION_SECONDS,
                   questions |-> qs, userAnswers |-> NoAnswers,
                   currentQuestionIndex |-> 1, contentId |-> "a" ]
       /\ timerRef = "live"
       /\ orphanTimers = 0
       /\ pendingLoads = <<>>
       /\ pendingFeedback = <<>>
       /\ quizResults = <<>>
       /\ returned = << Question("g1"), Question("") >>
       /\ lastAnswer = NoAnswers
       /\ wasTaking = TRUE
       /\ interacted = FALSE

\* every operation on a stored material: two materials uploaded earlier, a
\* quiz being taken
OpsInit ==
    /\ QuizTaking
    /\ studyMaterials = << Material(0), Material(1) >>
    /\ quizzes = <<>>
    /\ PagesIdle

\* the study page is opened once, for the first material
OpsNext ==
    \/ ClickSubmit
    \/ \E ok \in BOOLEAN : FeedbackSettled(1, ok)
    \/ Rerender
    \/ StudyMount(ContentIdOf(0))
    \/ StudyRerender
    \/ TypeChat(<<"p">>)
    \/ SendMessage
    \/ \E i \in 1..Len(pendingChats) : ChatResolved(i)
    \/ \E i \in 1..Len(pendingChats) : ChatRejected(i)
    \/ \E type \in {"explanation", "notes"} : ClickGenerate(type)
    \/ \E i \in 1..Len(pendingGenerates) : GenerateResolved(i, "t1")
    \/ \E i \in 1..Len(pendingGenerates) : GenerateRejected(i)
    \/ ClickGenerateBlockDiagram
    \/ \E i \in 1..Len(pendingGenerates) : BlockDiagramResolved(i, "graph")
    \/ \E i \in 1..Len(pendingGenerates) : BlockDiagramRejected(i)
    \/ ClickGeneratePresentation
    \/ \E i \in 1..Len(pendingGenerates) : PresentationContentResolved(i, "slides")
    \/ \E i \in 1..Len(pendingGenerates) : PresentationImagesResolved(i, "slides+images")
    \/ \E i \in 1..Len(pendingGenerates) : PresentationRejected(i)
    \/ ClickGenerateVideo
    \/ \E i \in 1..Len(pendingGenerates) : VideoResolved(i, 2)
    \/ \E i \in 1..Len(pendingGenerates) : VideoRejected(i)

OpsSpec == OpsInit /\ [][OpsNext]_vars

\* --------------------------------------------- the home page (HomeSpec)
MaxUploads == 2
MaxTime == 1
MaxHomeMounts == 2
MaxSuggests == 1

\* what the user types into the text box and the link box
TextInputs == { <<>>, <<" ">>, <<"p">> }

\* what the user types into the title box
Titles == {"", "T"}

\* what fetchYouTubeTranscript returns: nothing or some text
Transcripts == {"", "text"}

\* the text as the store keeps it: none or some
Stored(text) == IF text = <<>> THEN "" ELSE "text"

\* setters of an instance that is no longer on screen do nothing
HomeSet(a, instance, cells) ==
    IF a.home.mounted /\ a.home.instance = instance THEN [a EXCEPT !.home = cells] ELSE a

\* navigate(`/study/${id}`): the study page replaces the home page; a study
\* page already on screen stays the same instance with the new route parameter
NavigateStudy(a, id) ==
    StudyRender([a EXCEPT !.home = NoHome(@.instance),
                          !.study = IF @.mounted THEN [@ EXCEPT !.contentId = Some(id)]
                                    ELSE StudyCells(@.instance + 1, Some(id))])

\* handleSubmit from addContent on, DashboardPage.tsx:273-296
HandleSubmitFinish(a, req) ==
    LET uploadedContent == UploadedContent(req.newContentId, req.extractedText)
        b == [a EXCEPT !.studyMaterials = AddContent(@, uploadedContent)]
    IN  IF AddContentThrows(a.studyMaterials, uploadedContent)
        THEN HomeSet(b, req.instance,
               [b.home EXCEPT !.error = Some("Failed to process content."),
                              !.isLoading = FALSE])
        ELSE LET c == NavigateStudy(b, uploadedContent.id)
             IN  HomeSet(c, req.instance, [c.home EXCEPT !.isLoading = FALSE])

\* handleSubmit at its title, DashboardPage.tsx:271
HandleSubmitTitled(a, req) ==
    IF req.title # "" \/ req.extractedText = "" THEN HandleSubmitFinish(a, req)
    ELSE [a EXCEPT !.pendingUploads = Append(@, [req EXCEPT !.stage = "title"])]

\* handleSubmit's catch and finally, DashboardPage.tsx:291-296
HandleSubmitCaught(a, req) ==
    HomeSet(a, req.instance,
      [a.home EXCEPT !.error = Some("Failed to process content."), !.isLoading = FALSE])

\* the content of the selected type is missing, DashboardPage.tsx:245-247
ContentMissing(h) ==
    \/ h.contentType = "text" /\ Trim(h.textContent) = <<>>
    \/ h.contentType = "youtube" /\ Trim(h.youtubeUrl) = <<>>
    \/ h.contentType = "file" /\ ~h.selectedFile

\* handleSubmit without its check of the content
HandleSubmitUnchecked(a, t) ==
    LET h == a.home
        req == [ newContentId |-> t, contentType |-> h.contentType,
                 extractedText |-> Stored(h.textContent), title |-> h.title,
                 instance |-> h.instance, stage |-> "extract" ]
    IN  [a EXCEPT !.home.isLoading = TRUE, !.home.error = None, !.now = t,
                  !.pendingUploads = Append(@, req)]

\* handleSubmit up to its first await, DashboardPage.tsx:240-271; t is Date.now()
HandleSubmit(a, t) ==
    LET h == a.home
    IN  IF ContentMissing(h)
        THEN [a EXCEPT !.home.error = Some("Please provide the required content."),
                       !.home.isLoading = FALSE]
        ELSE LET req == [ newContentId |-> t, contentType |-> h.contentType,
                          extractedText |-> Stored(h.textContent), title |-> h.title,
                          instance |-> h.instance, stage |-> "extract" ]
                 b == [a EXCEPT !.home.isLoading = TRUE, !.home.error = None, !.now = t]
             IN  IF h.contentType \in {"youtube", "file"}
                 THEN [b EXCEPT !.pendingUploads = Append(@, req)]
                 ELSE HandleSubmitTitled(b, req)

\* isSubmitDisabled() looking at the content only
IsSubmitDisabledContentOnly(h) == ContentMissing(h)

\* isSubmitDisabled(), DashboardPage.tsx:306-312
IsSubmitDisabled(h) ==
    \/ h.isLoading
    \/ h.isSuggestingMeta
    \/ h.contentType = "text" /\ Trim(h.textContent) = <<>>
    \/ h.contentType = "youtube" /\ Trim(h.youtubeUrl) = <<>>
    \/ h.contentType = "file" /\ ~h.selectedFile

\* handleSuggestMetadata up to its await, DashboardPage.tsx:211-226
HandleSuggestMetadata(a) ==
    LET h == a.home
    IN  IF \/ h.contentType = "text" /\ Trim(h.textContent) # <<>>
           \/ h.contentType = "youtube" /\ Trim(h.youtubeUrl) # <<>>
           \/ h.contentType = "file" /\ h.selectedFile
        THEN [a EXCEPT !.home.isSuggestingMeta = TRUE,
                       !.home.error = None,
                       !.pendingUploads = Append(@, [ newContentId |-> 0,
                                                      contentType |-> h.contentType,
                                                      extractedText |-> "", title |-> "",
                                                      instance |-> h.instance,
                                                      stage |-> "suggest" ])]
        ELSE [a EXCEPT !.home.error =
                         Some("Please provide content before suggesting metadata.")]

\* handleSuggestMetadata after suggestMetadata resolved, DashboardPage.tsx:227-237
HandleSuggestMetadataResolved(a, i, title) ==
    LET req == a.pendingUploads[i]
        b == HomeSet(a, req.instance, [a.home EXCEPT !.title = title,
                                                     !.isSuggestingMeta = FALSE])
    IN  [b EXCEPT !.pendingUploads = Without(@, i)]

\* handleSuggestMetadata after suggestMetadata rejected, DashboardPage.tsx:231-237
HandleSuggestMetadataRejected(a, i) ==
    LET req == a.pendingUploads[i]
        b == HomeSet(a, req.instance,
               [a.home EXCEPT !.error = Some("Failed to suggest metadata."),
                              !.isSuggestingMeta = FALSE])
    IN  [b EXCEPT !.pendingUploads = Without(@, i)]

\* the handleSubmit calls among the calls in flight
Uploads(pending) == SelectSeq(pending, LAMBDA req : req.stage # "suggest")

\* the user opens the home page
HomeMount ==
    /\ ~home.mounted
    /\ home.instance < MaxHomeMounts
    /\ AppBecomes([StudyGone(App) EXCEPT !.home = HomeCells(@.instance + 1)])

\* the user picks Text or YouTube
ContentTypeChange(newType) ==
    /\ home.mounted
    /\ AppBecomes([App EXCEPT !.home.contentType = newType, !.home.error = None])

\* the user types into the text box
TypeText(text) ==
    /\ home.mounted
    /\ home.contentType = "text"
    /\ AppBecomes([App EXCEPT !.home.textContent = text, !.home.error = None])

\* the user types into the link box
TypeUrl(url) ==
    /\ home.mounted
    /\ home.contentType = "youtube"
    /\ AppBecomes([App EXCEPT !.home.youtubeUrl = url, !.home.error = None])

\* the user types into the title box
TypeTitle(title) ==
    /\ home.mounted
    /\ AppBecomes([App EXCEPT !.home.title = title])

\* the user submits the form; the clock reads t
Submit(t) ==
    /\ home.mounted
    /\ ~IsSubmitDisabled(home)
    /\ t >= now
    /\ Len(studyMaterials) + Len(Uploads(pendingUploads)) < MaxUploads
    /\ AppBecomes(HandleSubmit(App, t))

\* fetchYouTubeTranscript resolved
ExtractResolved(i, text) ==
    /\ pendingUploads[i].stage = "extract"
    /\ AppBecomes(HandleSubmitTitled([App EXCEPT !.pendingUploads = Without(@, i)],
                                     [pendingUploads[i] EXCEPT !.extractedText = text]))

\* suggestMetadata resolved
TitleResolved(i) ==
    /\ pendingUploads[i].stage = "title"
    /\ AppBecomes(HandleSubmitFinish([App EXCEPT !.pendingUploads = Without(@, i)],
                                     pendingUploads[i]))

\* fetchYouTubeTranscript or suggestMetadata rejected
UploadRejected(i) ==
    /\ pendingUploads[i].stage \in {"extract", "title"}
    /\ AppBecomes(HandleSubmitCaught([App EXCEPT !.pendingUploads = Without(@, i)],
                                  pendingUploads[i]))

\* the user clicks Suggest with AI (disabled while uploading or without content)
ClickSuggest ==
    /\ home.mounted
    /\ ~home.isLoading
    /\ ~ContentMissing(home)
    /\ Len(pendingUploads) - Len(Uploads(pendingUploads)) < MaxSuggests
    /\ AppBecomes(HandleSuggestMetadata(App))

SuggestResolved(i, title) ==
    /\ pendingUploads[i].stage = "suggest"
    /\ AppBecomes(HandleSuggestMetadataResolved(App, i, title))

SuggestRejected(i) ==
    /\ pendingUploads[i].stage = "suggest"
    /\ AppBecomes(HandleSuggestMetadataRejected(App, i))

\* the application as it starts: the home page on screen, nothing uploaded
HomeInit ==
    /\ QuizIdle
    /\ apiKey
    /\ studyMaterials = <<>>
    /\ quizzes = <<>>
    /\ dashboard = [mounted |-> FALSE, averageScore |-> None]
    /\ study = NoStudy(0)
    /\ studyView = [cells |-> NoStudy(0), store |-> <<>>]
    /\ pendingChats = <<>>
    /\ pendingGenerates = <<>>
    /\ sent = 0
    /\ started = 0
    /\ lastUpdate = [flip |-> FALSE, id |-> None, partial |-> [chatHistory |-> <<>>]]
    /\ home = HomeCells(1)
    /\ pendingUploads = <<>>
    /\ now = 0
    /\ player = NoPlayer

HomeNext ==
    \/ HomeMount
    \/ \E cid \in StudyRoutes : StudyMount(cid)
    \/ \E newType \in {"text", "youtube"} : ContentTypeChange(newType)
    \/ \E text \in {<<>>, <<"p">>} : TypeText(text)
    \/ \E url \in {<<>>, <<"p">>} : TypeUrl(url)
    \/ \E title \in Titles : TypeTitle(title)
    \/ \E t \in 0..MaxTime : Submit(t)
    \/ \E i \in 1..Len(pendingUploads), text \in Transcripts : ExtractResolved(i, text)
    \/ \E i \in 1..Len(pendingUploads) : TitleResolved(i)
    \/ \E i \in 1..Len(pendingUploads) : UploadRejected(i)

HomeSpec == HomeInit /\ [][HomeNext]_vars

\* the user picks a file, or none
SelectFile(file) ==
    /\ home.mounted
    /\ home.contentType = "file"
    /\ AppBecomes([App EXCEPT !.home.selectedFile = file, !.home.error = None])

\* the user navigates from the home page to a page that is not modelled
HomeLeave ==
    /\ home.mounted
    /\ AppBecomes([App EXCEPT !.home = NoHome(@.instance)])

\* the form is submitted although its button is disabled for missing content
\* (a submit event dispatched to the form)
SubmitForm ==
    /\ home.mounted
    /\ ContentMissing(home)
    /\ AppBecomes(HandleSubmit(App, now))

\* the upload form with its three kinds of content
FormNext ==
    \/ \E newType \in {"text", "youtube", "file"} : ContentTypeChange(newType)
    \/ \E text \in TextInputs : TypeText(text)
    \/ \E url \in {<<>>, <<"p">>} : TypeUrl(url)
    \/ \E file \in BOOLEAN : SelectFile(file)
    \/ SubmitForm
    \/ \E t \in 0..MaxTime : Submit(t)
    \/ \E i \in 1..Len(pendingUploads), text \in Transcripts : ExtractResolved(i, text)
    \/ \E i \in 1..Len(pendingUploads) : TitleResolved(i)
    \/ \E i \in 1..Len(pendingUploads) : UploadRejected(i)

FormSpec == HomeInit /\ [][FormNext]_vars

\* uploading text and suggesting metadata, leaving the home page and coming back
FlagsNext ==
    \/ HomeMount
    \/ HomeLeave
    \/ \E text \in {<<>>, <<"p">>} : TypeText(text)
    \/ \E t \in 0..MaxTime : Submit(t)
    \/ \E i \in 1..Len(pendingUploads) : TitleResolved(i)
    \/ \E i \in 1..Len(pendingUploads) : UploadRejected(i)
    \/ ClickSuggest
    \/ \E i \in 1..Len(pendingUploads) : SuggestResolved(i, "T")
    \/ \E i \in 1..Len(pendingUploads) : SuggestRejected(i)

FlagsSpec == HomeInit /\ [][FlagsNext]_vars

\* ------------------------------------------ the video player (PlayerSpec)
MaxScenes == 4

\* the scene lists the player is given: non-empty, each scene with a script or not
SceneLists ==
    UNION { [1..n -> BOOLEAN] : n \in 1..MaxScenes }

\* speechSynthesis.cancel(): the queue of the browser is emptied
SpeechSynthesisCancel(p) == [p EXCEPT !.queue = <<>>]

\* speechSynthesis.speak(utterance)
SpeechSynthesisSpeak(p, utterance) == [p EXCEPT !.queue = Append(@, utterance)]

\* utterance.onend of the utterance of scene k always going on to the next scene
OnEndUnguarded(p, k) == [p EXCEPT !.currentSceneIndex = @ + 1]

\* utterance.onend of the utterance of scene k, QuizPage.tsx:342-351
OnEnd(p, k) ==
    IF p.isPlayingRef /\ k < Len(p.scenes) - 1
    THEN [p EXCEPT !.currentSceneIndex = @ + 1]
    ELSE [p EXCEPT !.isPlaying = FALSE]

\* the clean-up of the speech effect, QuizPage.tsx:359-362, of the run that
\* spoke scene k
SpeechCleanup(p, k) ==
    SpeechSynthesisCancel(
      [p EXCEPT !.queue = [j \in 1..Len(@) |->
                             IF @[j].index = k THEN [@[j] EXCEPT !.onend = FALSE] ELSE @[j]],
                !.cleanup = None])

\* the speech effect, QuizPage.tsx:326-364, with the values of the render p.view
SpeechEffect(p) ==
    LET k == p.view.currentSceneIndex
    IN  IF ~p.view.isPlaying THEN p
        ELSE IF k >= Len(p.scenes) \/ ~p.scenes[k + 1]
        THEN [p EXCEPT !.isPlaying = FALSE]
        ELSE [SpeechSynthesisSpeak(SpeechSynthesisCancel(p), [index |-> k, onend |-> TRUE])
                EXCEPT !.cleanup = Some(k)]

\* the cells as a render captures them
PlayerView(p) == [currentSceneIndex |-> p.currentSceneIndex, isPlaying |-> p.isPlaying]

PlayerDirty(p) == p.mounted /\ p.view # PlayerView(p)

\* a render of VideoPlayer and its effects: the clean-up of the speech effect
\* when its dependencies changed, the effect of lines 321-324, the speech effect
PlayerCommit(p) ==
    IF ~PlayerDirty(p) THEN p
    ELSE LET p0 == [p EXCEPT !.view = PlayerView(p)]
             p1 == IF p0.cleanup # None THEN SpeechCleanup(p0, The(p0.cleanup)) ELSE p0
             p2 == [p1 EXCEPT !.isPlayingRef = p1.view.isPlaying]
         IN  SpeechEffect(p2)

\* a render and the render its effects cause (setIsPlaying(false) of line 334)
PlayerRender(p) == PlayerCommit(PlayerCommit(p))

\* handlePlayPause never going back to the first scene
HandlePlayPauseNoRestart(p) == [p EXCEPT !.isPlaying = ~@]

\* handlePlayPause, QuizPage.tsx:366-372
HandlePlayPause(p) ==
    LET q == IF ~p.view.isPlaying /\ p.view.currentSceneIndex = Len(p.scenes) - 1
             THEN [p EXCEPT !.currentSceneIndex = 0]
             ELSE p
    IN  [q EXCEPT !.isPlaying = ~@]

\* handleSkip, QuizPage.tsx:374-381
HandleSkip(p, direction) ==
    LET newIndex == IF direction = "next"
                    THEN Min(Len(p.scenes) - 1, p.view.currentSceneIndex + 1)
                    ELSE Max(0, p.view.currentSceneIndex - 1)
    IN  [p EXCEPT !.currentSceneIndex = newIndex]

\* the controls are rendered, QuizPage.tsx:383-385
ControlsShown == player.mounted /\ player.view.currentSceneIndex < Len(player.scenes)

\* the study page shows a material with generated scenes, QuizPage.tsx:1055-1057
PlayerMount(scenes) ==
    /\ ~mounted
    /\ ~player.mounted
    /\ AppBecomes([App EXCEPT !.player = PlayerCells(scenes)])

\* the player leaves the screen: the clean-up of the speech effect runs
PlayerUnmount ==
    /\ player.mounted
    /\ LET p == IF player.cleanup # None THEN SpeechCleanup(player, The(player.cleanup))
                ELSE player
       IN  AppBecomes([App EXCEPT !.player = [NoPlayer EXCEPT !.queue = p.queue]])

\* the render queued by an update made in onend
PlayerRerender ==
    /\ PlayerDirty(player)
    /\ AppBecomes([App EXCEPT !.player = PlayerRender(player)])

\* the play/pause button
PlayPause ==
    /\ ControlsShown
    /\ AppBecomes([App EXCEPT !.player = PlayerRender(HandlePlayPause(player))])

\* the previous and next buttons (disabled on the first and on the last scene)
Skip(direction) ==
    /\ ControlsShown
    /\ IF direction = "prev" THEN player.view.currentSceneIndex # 0
       ELSE player.view.currentSceneIndex # Len(player.scenes) - 1
    /\ AppBecomes([App EXCEPT !.player = PlayerRender(HandleSkip(player, direction))])

\* the browser finishes speaking the first utterance of its queue
SpeechEnd ==
    /\ player.queue # <<>>
    /\ LET utterance == Head(player.queue)
           p == [player EXCEPT !.queue = Tail(@)]
       IN  AppBecomes([App EXCEPT !.player =
             IF utterance.onend /\ p.mounted THEN OnEnd(p, utterance.index) ELSE p])

\* a quiz being taken; once it is left, the player of the study page
PlayerInit ==
    /\ QuizTaking
    /\ studyMaterials = << Material(0) >>
    /\ quizzes = <<>>
    /\ PagesIdle

PlayerNext ==
    \/ Previous
    \/ NextQuestion
    \/ Unmount
    \/ \E scenes \in SceneLists : PlayerMount(scenes)
    \/ PlayerUnmount
    \/ PlayerRerender
    \/ PlayPause
    \/ \E direction \in {"prev", "next"} : Skip(direction)
    \/ SpeechEnd

PlayerSpec == PlayerInit /\ [][PlayerNext]_vars

\* ---------------------------------------- failing gateway calls (FailSpec)
\* no page on screen: the routes show one page at a time
NoPage == ~mounted /\ ~study.mounted /\ ~home.mounted

\* one material with an explanation, no page on screen
FailInit ==
    /\ QuizIdle
    /\ apiKey
    /\ studyMaterials = << [Material(0) EXCEPT !.aiExplanation = Some("t1")] >>
    /\ quizzes = <<>>
    /\ PagesIdle

\* no call to the gateway is in flight
Quiet ==
    /\ pendingUploads = <<>> /\ pendingChats = <<>> /\ pendingGenerates = <<>>
    /\ pendingLoads = <<>> /\ pendingFeedback = <<>>

\* every call to the gateway is made, one at a time, and fails; the quiz is
\* loaded to be submitted
FailNext ==
    \/ NoPage /\ HomeMount
    \/ HomeLeave
    \/ TypeText(<<"p">>)
    \/ Quiet /\ \E t \in 0..MaxTime : Submit(t)
    \/ \E i \in 1..Len(pendingUploads) : UploadRejected(i)
    \/ Quiet /\ ClickSuggest
    \/ \E i \in 1..Len(pendingUploads) : SuggestRejected(i)
    \/ NoPage /\ StudyMount(ContentIdOf(0))
    \/ StudyUnmount
    \/ StudyRerender
    \/ TypeChat(<<"p">>)
    \/ Quiet /\ SendMessage
    \/ \E i \in 1..Len(pendingChats) : ChatRejected(i)
    \/ Quiet /\ \E type \in {"explanation", "notes"} : ClickGenerate(type)
    \/ \E i \in 1..Len(pendingGenerates) : GenerateRejected(i)
    \/ Quiet /\ ClickGenerateBlockDiagram
    \/ \E i \in 1..Len(pendingGenerates) : BlockDiagramResolved(i, "")
    \/ \E i \in 1..Len(pendingGenerates) : BlockDiagramRejected(i)
    \/ Quiet /\ ClickGeneratePresentation
    \/ \E i \in 1..Len(pendingGenerates) : PresentationContentResolved(i, "")
    \/ \E i \in 1..Len(pendingGenerates) : PresentationRejected(i)
    \/ Quiet /\ ClickGenerateVideo
    \/ \E i \in 1..Len(pendingGenerates) : VideoRejected(i)
    \/ Quiet /\ NoPage /\ Mount("a")
    \/ Unmount
    \/ Rerender
    \/ \E i \in 1..Len(pendingLoads), qs \in GatewayQuestionSets, gen \in Draws :
         LoadResolved(i, qs, gen)
    \/ \E i \in 1..Len(pendingLoads) : LoadRejected(i)
    \/ NextQuestion
    \/ Quiet /\ ClickSubmit
    \/ \E i \in 1..Len(pendingFeedback) : FeedbackSettled(i, FALSE)
    \/ SettledAfterUnmount

FailSpec == FailInit /\ [][FailNext]_vars

\* ------------------------------------------------------------- claims
Last(seq) == seq[Len(seq)]

\* C1: two calls of handleSubmitQuiz in one session (the timer effect's call
\* and a click on Submit Quiz before the state change of the first is
\* rendered) hand exactly one Quiz record to addQuizResult.
C1_OneRecordPerSession == Len(quizResults) <= 1

\* C2: a feedback response (or failure) of a request made by an earlier
\* session changes neither the feedback nor the state of the session that is
\* loaded when it arrives.
C2_LateFeedbackIgnored ==
    [][ \A i \in 1..Len(pendingFeedback) :
          ( /\ pendingFeedback' = RemoveAt(pendingFeedback, i)
            /\ pendingFeedback[i].session # session )
          => (feedback' = feedback /\ quizState' = quizState) ]_vars

\* C3: once the session is in `submitting` or `results`, or the component is
\* unmounted, no timeout that can fire is pending and the remaining time no
\* longer changes.
LeftTaking == ~mounted \/ quizState \in {"submitting", "results"}
C3_TimerStopped ==
    [][ /\ LeftTaking' => (timerRef' # "live" /\ orphanTimers' = 0)
        /\ (LeftTaking /\ mounted' = mounted) => timeLeft' = timeLeft ]_vars

\* a step in which the timeout named by timerRef.current fires
TickStep ==
    /\ timerRef = "live" /\ timerRef' = "stale"
    /\ view' = view /\ quizState' = quizState

\* the graded questions and the Quiz record a manual submission makes of the
\* render v at remaining time zero
Graded(v) == [i \in 1..Len(v.questions) |-> Answered(v.questions[i], v.userAnswers)]
ManualAtZero(v, s) ==
    [ contentId |-> v.contentId, questions |-> Graded(v),
      score |-> Cardinality({i \in 1..Len(v.questions) : IsCorrect(v.questions[i], v.userAnswers[v.questions[i].id])}),
      durationSeconds |-> DEFAULT_QUIZ_DURATION_SECONDS, session |-> s ]

\* a step that renders `taking` with remaining time zero
ZeroRendered ==
    mounted' /\ view' # view /\ view'.quizState = "taking" /\ view'.timeLeft = 0

\* C4: in `taking` a tick takes one from the remaining time, and the render
\* of remaining time zero submits: the session is `submitting`, the
\* questions are graded, the Quiz record of a manual submission at time zero
\* is persisted and the feedback request is issued.
C4_TickAndAutoSubmit ==
    [][ /\ (TickStep /\ quizState = "taking") => (timeLeft' = timeLeft - 1 /\ timeLeft' >= 0)
        /\ ZeroRendered =>
             ( /\ quizState' = "submitting"
               /\ quizResults' # <<>>
               /\ Last(quizResults') = ManualAtZero(view', session')
               /\ questions' = Graded(view')
               /\ score' = Last(quizResults').score
               /\ Len(pendingFeedback') = Len(pendingFeedback) + 1 ) ]_vars

C4_Witness ==
    /\ mounted /\ view.quizState = "taking" /\ view.timeLeft = 0
    /\ quizState = "submitting"
    /\ Len(quizResults) = 1
    /\ quizResults[1].score = 1
    /\ quizResults[1].durationSeconds = DEFAULT_QUIZ_DURATION_SECONDS

\* C5: a session the user never acts on that reached `results` with
\* questions has used up its time, has every question marked not correct
\* with no user answer, score 0, and one persisted Quiz whose durationSeconds
\* is the configured duration; the feedback call may have failed or not.
Untouched == mounted /\ ~interacted /\ questions # <<>>
C5_ExpiryUnanswered ==
    /\ (Untouched /\ quizState \in {"submitting", "results"}) => timeLeft = 0
    /\ (Untouched /\ quizState = "results") =>
         ( /\ \A i \in 1..Len(questions) :
                questions[i].isCorrect = Some(FALSE) /\ questions[i].userAnswer = None
           /\ score = 0
           /\ feedback # None
           /\ Len(quizResults) = 1
           /\ quizResults[1].score = 0
           /\ quizResults[1].durationSeconds = DEFAULT_QUIZ_DURATION_SECONDS )

C5_Witness ==
    /\ Untouched /\ quizState = "results" /\ Len(questions) = 2
    /\ \E f \in feedback : f.text = "Could not generate AI feedback."

\* C6: `submitting` is entered from `taking` only.
C6_SubmittingFromTaking ==
    [][ (quizState' = "submitting" /\ quizState # "submitting") => quizState = "taking" ]_vars

\* C7: `results` is terminal: while the component stays mounted, no step
\* takes the state from `results` to another state.
C7_ResultsTerminal ==
    [][ (mounted /\ mounted' /\ quizState = "results") => quizState' = "results" ]_vars

\* C8: a failed load (no text, zero questions, rejected call; each sets the
\* error) leaves the session in `results` with no questions and no Quiz
\* record, and the session never was in `taking`.
C8_LoadFailure ==
    (mounted /\ error # None) =>
        (quizState = "results" /\ questions = <<>> /\ quizResults = <<>> /\ ~wasTaking)

\* C9: without an API key generateQuizQuestions is never called and a mounted
\* session is in `results` with the error set, never having been in `taking`
\* and with nothing persisted.
C9_NoKeyNoCall ==
    ~apiKey =>
        ( /\ pendingLoads = <<>>
          /\ mounted => ( /\ quizState = "results"
                         /\ error = Some("API Key not configured. Quiz unavailable.")
                         /\ questions = <<>> /\ quizResults = <<>> /\ ~wasTaking ) )

C9_Witness ==
    ~apiKey /\ mounted /\ routeChanges = 1 /\ quizState = "results" /\ error # None

\* C10: after a non-empty load the session is in `taking` with the returned
\* questions in order, supplied ids kept, every id non-empty, all ids
\* pairwise distinct, and the remaining time reset.
C10_LoadedQuestions ==
    (mounted /\ returned # <<>> /\ quizState = "taking") =>
        ( /\ Len(questions) = Len(returned)
          /\ \A i \in 1..Len(questions) :
               /\ questions[i].id # ""
               /\ returned[i].id # "" => questions[i].id = returned[i].id
               /\ [questions[i] EXCEPT !.id = ""] = [returned[i] EXCEPT !.id = ""]
          /\ \A i, j \in 1..Len(questions) : i # j => questions[i].id # questions[j].id
          /\ timeLeft = DEFAULT_QUIZ_DURATION_SECONDS )

\* a string without its leading and trailing white space, in lower case
Canon(s) ==
    LET solid == { i \in 1..Len(s) : s[i] \notin Whitespace }
    IN IF solid = {} THEN <<>>
       ELSE LET lo == CHOOSE i \in solid : \A j \in solid : i <= j
                hi == CHOOSE i \in solid : \A j \in solid : i >= j
            IN [k \in 1..(hi - lo + 1) |-> LowerOf(s[lo + k - 1])]

\* the one correctness rule
ExactMatch(ua, correct) == ua # None /\ \E a \in ua : Canon(a) = Canon(correct)

\* C11: every graded question carries the answer captured for its id and is
\* marked correct exactly if that answer exists and, trimmed and lower-cased,
\* equals the trimmed, lower-cased correct answer; " p " matches "P", "p,"
\* does not, and a question without an answer is marked incorrect.
C11_ExactMatchGrading ==
    /\ \A r \in 1..Len(quizResults) : \A i \in 1..Len(quizResults[r].questions) :
         LET q == quizResults[r].questions[i]
         IN /\ q.userAnswer = userAnswers[q.id]
            /\ q.isCorrect = Some(ExactMatch(q.userAnswer, q.correctAnswer))
            /\ questions[i] = q
            /\ q.userAnswer = None => q.isCorrect = Some(FALSE)
            /\ (q.userAnswer = Some(<<" ", "p", " ">>) /\ q.correctAnswer = <<"P">>)
                 => q.isCorrect = Some(TRUE)
            /\ (q.userAnswer = Some(<<"p", ",">>) /\ q.correctAnswer = <<"P">>)
                 => q.isCorrect = Some(FALSE)
    /\ \A r \in 1..Len(quizResults) :
         score = Cardinality({ i \in 1..Len(questions) : questions[i].isCorrect = Some(TRUE) })

C11_Witness ==
    /\ quizState = "results"
    /\ Len(quizResults) = 1
    /\ quizResults[1].questions[1].userAnswer = Some(<<" ", "p", " ">>)
    /\ quizResults[1].questions[1].correctAnswer = <<"P", " ">>
    /\ quizResults[1].questions[1].isCorrect = Some(TRUE)
    /\ quizResults[1].questions[2].isCorrect = Some(FALSE)

\* a step in which handleSubmitQuiz runs past its guard: it persists a Quiz
\* record and issues a feedback request
Submits == Len(pendingFeedback') = Len(pendingFeedback) + 1 /\ quizResults' # <<>>

FallbackFeedback == "Could not generate AI feedback."

\* C13: a feedback request in flight has its Quiz record persisted already
\* (the step that issues the request persists the record with the same
\* score), and the step in which a feedback request fails changes neither
\* the score nor the persisted records nor the graded questions and sets the
\* feedback to the static fallback.
C13_FeedbackFailureHarmless ==
    [][ /\ Len(pendingFeedback') = Len(pendingFeedback) + 1 =>
             ( /\ quizResults' # <<>>
               /\ quizResults' # quizResults
               /\ Last(quizResults').session = Last(pendingFeedback').session
               /\ Last(quizResults').score = Last(pendingFeedback').score
               /\ score' = Last(quizResults').score )
        /\ \A i \in 1..Len(pendingFeedback) :
             ( /\ mounted /\ mounted'
               /\ pendingFeedback' = RemoveAt(pendingFeedback, i)
               /\ \A f \in feedback' : f.text # "generated" )
             => ( /\ score' = score
                  /\ quizResults' = quizResults
                  /\ questions' = questions
                  /\ \E f \in feedback' : f.text = FallbackFeedback
                  /\ quizState' = "results" ) ]_vars

C13_Witness ==
    /\ mounted /\ quizState = "results" /\ pendingFeedback = <<>>
    /\ \E f \in feedback : f.text = FallbackFeedback
    /\ score = 1
    /\ Len(quizResults) = 1 /\ quizResults[1].score = 1

\* C14: a session in `submitting` stays there until it goes to `results`: no
\* step of the same session leads from `submitting` to `loading` or `taking`.
C14_SubmittingToResults ==
    [][ (mounted /\ mounted' /\ session' = session /\ quizState = "submitting")
          => quizState' \in {"submitting", "results"} ]_vars

\* C15: the stored answer of every question id is the last answer given for
\* that id; an answer change leaves the answers of the other ids as they
\* were, and a move to the previous or the next question changes no answer.
C15_LastWriteWins ==
    [][ (mounted /\ mounted') =>
          ( /\ userAnswers' = lastAnswer'
            /\ currentQuestionIndex' # currentQuestionIndex => userAnswers' = userAnswers
            /\ userAnswers' # userAnswers =>
                 ( /\ FormShown
                   /\ \A id \in QuestionIds \ {CurrentQ.id} : userAnswers'[id] = userAnswers[id]
                   /\ userAnswers'[CurrentQ.id] # None ) ) ]_vars

C15_Witness ==
    /\ mounted /\ view.quizState = "taking" /\ currentQuestionIndex = 0
    /\ userAnswers["g1"] = Some(<<"P", ",">>)
    /\ userAnswers["q-r1"] = Some(<<>>)

\* the counted quizzes: those of a stored material that have questions
CountedQuizzes ==
    { k \in 1..Len(quizzes) :
        /\ Len(quizzes[k].questions) > 0
        /\ \E i \in 1..Len(studyMaterials) : studyMaterials[i].id = quizzes[k].contentId }

RECURSIVE SumOfScores(_)
SumOfScores(S) ==
    IF S = {} THEN 0
    ELSE LET k == CHOOSE x \in S : TRUE IN quizzes[k].score + SumOfScores(S \ {k})

RECURSIVE SumOfQuestions(_)
SumOfQuestions(S) ==
    IF S = {} THEN 0
    ELSE LET k == CHOOSE x \in S : TRUE IN Len(quizzes[k].questions) + SumOfQuestions(S \ {k})

TotalScore == SumOfScores(CountedQuizzes)
TotalQuestions == SumOfQuestions(CountedQuizzes)

\* C16: the average the dashboard shows is, in tenths of a percent, the
\* tenth nearest to 1000 * (total score) / (total questions) over the quizzes
\* of the stored materials that have questions, and 0 if there is no such
\* question; 3/5 and 4/4 on two materials give 77.8.
C16_AverageQuizScore ==
    (dashboard.mounted /\ studyMaterials # <<>>) =>
        \E avg \in dashboard.averageScore :
          /\ TotalQuestions = 0 => avg = 0
          /\ TotalQuestions > 0 =>
               /\ 2 * avg * TotalQuestions - TotalQuestions <= 2000 * TotalScore
               /\ 2000 * TotalScore < 2 * avg * TotalQuestions + TotalQuestions
          /\ (Len(studyMaterials) = 2 /\ quizzes = << StoredQuiz(0, 5, 3), StoredQuiz(1, 4, 4) >>)
               => avg = 778

C16_Witness ==
    /\ dashboard.mounted
    /\ Len(studyMaterials) = 2
    /\ quizzes = << StoredQuiz(0, 5, 3), StoredQuiz(1, 4, 4) >>
    /\ dashboard.averageScore = Some(778)

IsPrefix(p, q) == Len(p) <= Len(q) /\ SubSeq(q, 1, Len(p)) = p

\* C17: every write to a material's chatHistory keeps the chatHistory stored
\* before it as a prefix: messages are only appended, never removed or
\* reordered, whatever the interleaving of sends, responses, failures and
\* navigation away from and back to the study page
C17_ChatAppendOnly ==
    [][ \A i \in 1..Len(studyMaterials) :
          IsPrefix(studyMaterials[i].chatHistory, studyMaterials'[i].chatHistory) ]_vars

\* C18: every updateStudyMaterial(id, partial) call on a stored material
\* leaves each field the partial names with the partial's value and every
\* other field, and every other material, as it was (a shallow merge), so
\* after any sequence of calls a field holds the value of the last call that
\* named it; the calls are those of the study page's generation handlers
C18_ShallowMerge ==
    [][ lastUpdate' # lastUpdate =>
          LET id == The(lastUpdate'.id)
              partial == lastUpdate'.partial
          IN  /\ Len(studyMaterials') = Len(studyMaterials)
              /\ \A i \in 1..Len(studyMaterials) :
                   IF studyMaterials[i].id = id
                   THEN \A f \in DOMAIN studyMaterials[i] :
                          studyMaterials'[i][f] = IF f \in DOMAIN partial THEN partial[f]
                                                  ELSE studyMaterials[i][f]
                   ELSE studyMaterials'[i] = studyMaterials[i] ]_vars

\* a notes-only update has left the explanation written by an earlier call alone
C18_Witness ==
    /\ DOMAIN lastUpdate.partial = {"notes"}
    /\ lastUpdate.id = Some(ContentIdOf(0))
    /\ studyMaterials[1].aiExplanation = Some("t1")
    /\ studyMaterials[1].notes["Detailed"] = Some("t2")
    /\ studyMaterials[2] = Material(1)

\* C19: when an upload adds a material, the store keeps what it held and
\* getStudyMaterialById of the new id returns a material equal to the one
\* added; the study page opened for the new id finds it and does not
\* redirect to the home page; and no other step (a lookup among them)
\* changes the store
C19_AddThenLookup ==
    [][ /\ Len(studyMaterials') = Len(studyMaterials) + 1 =>
             LET m == Last(studyMaterials')
             IN  /\ SubSeq(studyMaterials', 1, Len(studyMaterials)) = studyMaterials
                 /\ m \in { UploadedContent(t, x) : t \in 0..now', x \in Transcripts }
                 /\ GetStudyMaterialById(studyMaterials, m.id) = None
                 /\ GetStudyMaterialById(studyMaterials', m.id) = Some(m)
                 /\ study'.mounted
                 /\ study'.contentId = Some(m.id)
                 /\ study'.material = Some(m)
                 /\ ~home'.mounted
        /\ Len(studyMaterials') # Len(studyMaterials) + 1 => studyMaterials' = studyMaterials
      ]_vars

\* the second upload has opened the study page for its material
C19_Witness ==
    /\ Len(studyMaterials) = 2
    /\ study.mounted
    /\ ~home.mounted
    /\ study.contentId = Some(studyMaterials[2].id)
    /\ study.material = Some(studyMaterials[2])
    /\ studyView.cells.material = Some(studyMaterials[2])

\* C20: the store never holds two materials with the same id, whatever the
\* uploads made through the home page and whatever the clock read when
\* their ids content_<time> were made
C20_UniqueIds ==
    \A i, j \in 1..Len(studyMaterials) :
        studyMaterials[i].id = studyMaterials[j].id => i = j

\* an upload whose id the store already holds was refused: the clock stood
\* still between two submissions
C20_Witness ==
    /\ Len(studyMaterials) = 1
    /\ studyMaterials[1].id = ContentIdOf(now)
    /\ pendingUploads = <<>>
    /\ home.mounted
    /\ home.error = Some("Failed to process content.")
    /\ ~home.isLoading
    /\ home.contentType = "text"
    /\ home.title = "T"

\* C21: no operation on a stored material (explanation, notes, chat,
\* presentation, diagram and video generation, quiz submission) changes its
\* id or changes or clears its extractedText, and none removes a material
C21_IdAndTextKept ==
    [][ /\ Len(studyMaterials') = Len(studyMaterials)
        /\ \A i \in 1..Len(studyMaterials) :
             /\ studyMaterials'[i].id = studyMaterials[i].id
             /\ studyMaterials'[i].extractedText = studyMaterials[i].extractedText ]_vars

\* an explanation, a chat message and a presentation were stored and a quiz
\* was submitted; the material is still the one uploaded
C21_Witness ==
    /\ studyMaterials[1].aiExplanation # None
    /\ studyMaterials[1].chatHistory # <<>>
    /\ studyMaterials[1].presentationContent # None
    /\ quizResults # <<>>
    /\ studyMaterials[1].id = ContentIdOf(0)
    /\ studyMaterials[1].extractedText = "text"


\* the page instance that issued the request is still on screen
OnStudy(req) == study.mounted /\ study.instance = req.instance
OnHome(req) == home.mounted /\ home.instance = req.instance

\* the stored material of a request after the step
StoredAfter(req) == The(GetStudyMaterialById(studyMaterials', req.material.id))

\* C22: every step in which a gateway call fails is the catch of the handler
\* that issued it: the call is over, and on the instance that issued it the
\* loading or awaiting flag of the handler is cleared and an error or a
\* fallback value is recorded (upload, metadata suggestion, explanation and
\* notes, chat, presentation, diagram, video, quiz loading, quiz feedback).
C22_FailuresCaught ==
    [][ /\ \A i \in 1..Len(pendingUploads) :
             LET req == pendingUploads[i]
             IN  /\ (UploadRejected(i) /\ OnHome(req)) =>
                       ( /\ ~home'.isLoading /\ home'.error # None
                         /\ pendingUploads' = Without(pendingUploads, i) )
                 /\ (SuggestRejected(i) /\ OnHome(req)) =>
                       ( /\ ~home'.isSuggestingMeta /\ home'.error # None
                         /\ pendingUploads' = Without(pendingUploads, i) )
        /\ \A i \in 1..Len(pendingChats) :
             LET req == pendingChats[i]
             IN  (ChatRejected(i) /\ OnStudy(req)) =>
                    ( /\ ~study'.isAwaitingChatResponse
                      /\ Last(StoredAfter(req).chatHistory).sender = "err"
                      /\ pendingChats' = Without(pendingChats, i) )
        /\ \A i \in 1..Len(pendingGenerates) :
             LET req == pendingGenerates[i]
             IN  /\ (GenerateRejected(i) /\ OnStudy(req)) =>
                       ( /\ ~study'.isLoading[req.type] /\ study'.error[req.type] # None
                         /\ pendingGenerates' = Without(pendingGenerates, i) )
                 /\ ((PresentationRejected(i) \/ PresentationContentResolved(i, ""))
                       /\ OnStudy(req)) =>
                       ( /\ ~study'.isGeneratingPresentation
                         /\ study'.presentationError # None
                         /\ pendingGenerates' = Without(pendingGenerates, i) )
                 /\ ((BlockDiagramRejected(i) \/ BlockDiagramResolved(i, ""))
                       /\ OnStudy(req)) =>
                       ( /\ ~study'.isGeneratingDiagram
                         /\ StoredAfter(req).blockDiagramMermaid = Some("error")
                         /\ pendingGenerates' = Without(pendingGenerates, i) )
                 /\ (BlockDiagramRejected(i) /\ OnStudy(req)) => study'.diagramError # None
                 /\ (VideoRejected(i) /\ OnStudy(req)) =>
                       ( /\ ~study'.isLoading.video /\ study'.error.video # None
                         /\ pendingGenerates' = Without(pendingGenerates, i) )
        /\ \A i \in 1..Len(pendingLoads) :
             LoadRejected(i) =>
                ( /\ quizState' = "results" /\ error' # None
                  /\ pendingLoads' = RemoveAt(pendingLoads, i) )
        /\ \A i \in 1..Len(pendingFeedback) :
             FeedbackSettled(i, FALSE) =>
                ( /\ quizState' = "results"
                  /\ \E f \in feedback' : f.text = FallbackFeedback
                  /\ pendingFeedback' = RemoveAt(pendingFeedback, i) ) ]_vars

\* a failed explanation and a failed chat message, both shown on the page
C22_Witness ==
    /\ study.mounted /\ Quiet
    /\ study.error.explanation # None /\ ~study.isLoading.explanation
    /\ ~study.isAwaitingChatResponse
    /\ studyMaterials[1].chatHistory # <<>>
    /\ Last(studyMaterials[1].chatHistory).sender = "err"

\* the Generate Diagram button is on screen and enabled, QuizPage.tsx:1021-1040:
\* it is a child of the ErrorBoundary
DiagramButtonEnabled ==
    /\ StudyShown
    /\ ~studyView.cells.hasError
    /\ The(studyView.cells.material).aiExplanation \notin {None, Some("")}
    /\ ~studyView.cells.isGeneratingDiagram

\* after a failed explanation, notes or diagram generation the button that
\* made the call is enabled again
GenerationRetryAvailable ==
    (StudyShown /\ ~StudyDirty(App)) =>
        /\ \A type \in {"explanation", "notes"} :
             (studyView.cells.error[type] # None /\ ~studyView.cells.isLoading[type]) =>
                The(studyView.cells.material).extractedText # ""
        /\ (/\ ~studyView.cells.hasError
            /\ ~studyView.cells.isGeneratingDiagram
            /\ \/ studyView.cells.diagramError = Some("Failed to generate diagram.")
               \/ The(studyView.cells.material).blockDiagramMermaid = Some("error"))
             => DiagramButtonEnabled

C24_MissingInputBlocks ==
    [][ /\ SubmitForm =>
             ( /\ home'.error = Some("Please provide the required content.")
               /\ ~home'.isLoading
               /\ pendingUploads' = pendingUploads
               /\ studyMaterials' = studyMaterials
               /\ home'.mounted /\ home'.instance = home.instance
               /\ study' = study )
        /\ \A t \in 0..MaxTime :
             (Submit(t) /\ ~ContentMissing(home)) =>
                ( /\ home'.error # Some("Please provide the required content.")
                  /\ \/ home'.isLoading /\ Len(pendingUploads') = Len(pendingUploads) + 1
                     \/ Len(studyMaterials') = Len(studyMaterials) + 1
                     \/ AddContentThrows(studyMaterials, UploadedContent(t, "text")) ) ]_vars

\* no file was selected and the form was submitted: the error is shown
C24_Witness ==
    /\ home.mounted /\ home.contentType = "file" /\ ~home.selectedFile
    /\ home.error = Some("Please provide the required content.")
    /\ ~home.isLoading /\ pendingUploads = <<>> /\ studyMaterials = <<>>

\* the index of the last scene of the player
LastScene == Len(player.scenes) - 1

\* C25: when the speech of a scene ends the player goes on to the next scene
\* if it is playing and the scene is not the last one, and stops otherwise;
\* pausing empties the speech queue, so that no end of speech follows; play
\* pressed while paused on the last scene starts again from scene 0; and the
\* speech queue never holds more than one utterance.
C25_SceneSequencing ==
    [][ /\ (SpeechEnd /\ player.mounted) =>
             LET k == Head(player.queue).index
             IN  IF player.isPlaying /\ k < LastScene
                 THEN /\ player'.currentSceneIndex = k + 1
                      /\ player'.isPlaying
                 ELSE /\ player'.currentSceneIndex = player.currentSceneIndex
                      /\ ~player'.isPlaying
        /\ (PlayPause /\ player.isPlaying) =>
             (~player'.isPlaying /\ player'.queue = <<>>)
        /\ (PlayPause /\ ~player.view.isPlaying /\ player.view.currentSceneIndex = LastScene) =>
             ( /\ player'.currentSceneIndex = 0
               /\ player.scenes[1] =>
                    (player'.isPlaying /\ player'.queue = << [index |-> 0, onend |-> TRUE] >>) )
        /\ Len(player'.queue) <= 1
        /\ (player'.mounted /\ ~player'.isPlaying /\ ~PlayerDirty(player')) =>
             player'.queue = <<>> ]_vars

\* the speech of a scene has just ended and the next scene is selected
C25_Witness ==
    /\ player.mounted /\ PlayerDirty(player)
    /\ player.isPlaying
    /\ player.currentSceneIndex = player.view.currentSceneIndex + 1
    /\ player.queue = <<>>

\* C26: the scene index of a player with a non-empty scene list stays within
\* 0..n-1 under play/pause, skip and end of speech, and the question index of
\* a quiz stays within 0..n-1 under Previous and Next.
C26_IndexesInRange ==
    /\ player.mounted =>
         (player.currentSceneIndex >= 0 /\ player.currentSceneIndex <= LastScene)
    /\ (mounted /\ questions # <<>>) =>
         (currentQuestionIndex >= 0 /\ currentQuestionIndex <= Len(questions) - 1)

\* the last of four scenes is being spoken
C26_Witness ==
    /\ player.mounted /\ Len(player.scenes) = MaxScenes
    /\ player.currentSceneIndex = LastScene
    /\ player.isPlaying
    /\ player.queue = << [index |-> LastScene, onend |-> TRUE] >>

\* the timeouts of the timer effect that have not fired and were not cleared
PendingTimers == (IF timerRef \in {"fresh", "live"} THEN 1 ELSE 0) + orphanTimers

\* C27: the remaining time of a quiz stays within 0..duration and at most one
\* callback of the timer effect is pending: a re-run of the effect clears the
\* previous timeout before it sets a new one.
C27_TimerBounded ==
    [][ /\ mounted' =>
             /\ timeLeft' >= 0 /\ timeLeft' <= DEFAULT_QUIZ_DURATION_SECONDS
             /\ PendingTimers' <= 1
        /\ Tick => (timeLeft' = timeLeft - 1 /\ PendingTimers' = 0) ]_vars

\* a tick was rendered and the effect set the next timeout
C27_Witness ==
    /\ mounted /\ quizState = "taking" /\ view.quizState = "taking"
    /\ timeLeft = DEFAULT_QUIZ_DURATION_SECONDS - 1 /\ view.timeLeft = timeLeft
    /\ timerRef = "live" /\ orphanTimers = 0

\* the explanation the page shows is missing or empty
Unexplained == The(studyView.cells.material).aiExplanation \in {None, Some("")}

\* C28: a presentation generation asked for without an explanation sets the
\* error and neither writes to the store nor calls the gateway; a generation
\* whose first or second step fails leaves the stored material without
\* presentationContent, whatever was stored before; and every end of a
\* generation clears the generating flag of the page that started it.
C28_PresentationAllOrNothing ==
    [][ /\ (ClickGeneratePresentation /\ Unexplained) =>
             ( /\ study'.presentationError =
                    Some("An explanation must be generated first to create a presentation.")
               /\ ~study'.isGeneratingPresentation
               /\ studyMaterials' = studyMaterials
               /\ pendingGenerates' = pendingGenerates )
        /\ \A i \in 1..Len(pendingGenerates) :
             LET req == pendingGenerates[i]
             IN  /\ ( \/ PresentationRejected(i)
                      \/ PresentationContentResolved(i, "")
                      \/ PresentationImagesResolved(i, "") ) =>
                       ( /\ StoredAfter(req).presentationContent = None
                         /\ pendingGenerates' = Without(pendingGenerates, i)
                         /\ OnStudy(req) => ( /\ ~study'.isGeneratingPresentation
                                              /\ study'.presentationError # None ) )
                 /\ \A images \in SlideImages \ {""} :
                      PresentationImagesResolved(i, images) =>
                        ( /\ StoredAfter(req).presentationContent = Some(images)
                          /\ pendingGenerates' = Without(pendingGenerates, i)
                          /\ OnStudy(req) => ~study'.isGeneratingPresentation ) ]_vars

\* the second step failed: the content of the first step was stored and is gone
C28_Witness ==
    /\ study.mounted /\ pendingGenerates = <<>>
    /\ ~study.isGeneratingPresentation
    /\ study.presentationError = Some("Presentation generation failed.")
    /\ studyMaterials[1].presentationContent = None
    /\ lastUpdate.partial = [presentationContent |-> None]

\* the notes of a request's material as the store holds them
StoredNotes(req) == The(GetStudyMaterialById(studyMaterials, req.material.id)).notes

\* C29: a notes generation that resolves stores its result under the level
\* that was selected when it was started and leaves the stored notes of the
\* other two levels as they are.
C29_NotesPerLevel ==
    [][ \A i \in 1..Len(pendingGenerates), result \in GeneratedTexts :
          LET req == pendingGenerates[i]
          IN  (req.type = "notes" /\ GenerateResolved(i, result)) =>
                 /\ StoredAfter(req).notes[req.level] = Some(result)
                 /\ \A level \in NoteLevels \ {req.level} :
                      StoredAfter(req).notes[level] = StoredNotes(req)[level] ]_vars

\* the calls in flight that the home page on screen made
OwnUploads ==
    { i \in 1..Len(pendingUploads) :
        pendingUploads[i].stage # "suggest" /\ pendingUploads[i].instance = home.instance }
OwnSuggests ==
    { i \in 1..Len(pendingUploads) :
        pendingUploads[i].stage = "suggest" /\ pendingUploads[i].instance = home.instance }

\* the flags of the home page: never both set, and set only while a call of
\* the page is in flight
FlagsExclusive ==
    home.mounted =>
        /\ ~(home.isLoading /\ home.isSuggestingMeta)
        /\ home.isLoading => OwnUploads # {}
        /\ home.isSuggestingMeta => OwnSuggests # {}

\* C30 as stated: upload and metadata suggestion are never in progress
\* together, each flag is set only while its handler runs, and at most one
\* upload is in progress at a time.
C30_OneUploadAtATime ==
    /\ FlagsExclusive
    /\ Len(Uploads(pendingUploads)) <= 1

\* C30, amended: upload and metadata suggestion are never in progress
\* together, each flag is set only while its handler runs, and at most one
\* upload of the home page on screen is in progress at a time (an upload of a
\* home page that was left goes on).
C30_OneUploadPerPage ==
    /\ FlagsExclusive
    /\ Cardinality(OwnUploads) <= 1

\* the home page was left during an upload and, back on it, a second one runs
C30_Witness ==
    /\ home.mounted /\ home.isLoading /\ ~home.isSuggestingMeta
    /\ Len(Uploads(pendingUploads)) = 2
    /\ Cardinality(OwnUploads) = 1

====
